---- MODULE Spec2Model ----
(***************************************************************************)
(* Team-H multi-agent orchestration: router node, manager nodes, handoff   *)
(* detection, loop prevention, checkpointing per thread id, human-in-the-  *)
(* loop interrupts and the /chat/stream and /chat/resume request tasks.    *)
(***************************************************************************)
EXTENDS Integers, Sequences, FiniteSets, TLC

\* ------------------------------------------------------------------------
\* Bounds of the exploration
\* ------------------------------------------------------------------------
MaxHandoffsCfg == 1     \* largest max_handoffs constructor argument explored
MaxLog == 6             \* tool turns and new requests stop at this log length
MaxReqs == 2            \* request tasks that can be in flight at once
MaxTurns == 1           \* tool-calling LLM turns per agent-node run
MaxDecisions == 2       \* longest decision list a resume request carries
MaxRequests == 3        \* requests accepted over the whole run
MaxStreams == 2         \* stream requests among them
MaxResumes == 2         \* resume requests among them

\* ------------------------------------------------------------------------
\* Identifiers
\* ------------------------------------------------------------------------
Threads == {"t1", "t2"}
Reqs == 1..MaxReqs
\* AgentRouting.target_agent: Literal["i", "m", "s", "t"]
Managers == {"i", "m", "s", "t"}
\* manager configurations the team is constructed with (manager_x is not None)
ManagerConfigs == {{"m", "s"}}
\* enable_manager_x flag settings the constructor is called with
EnableFlagConfigs == ManagerConfigs \cup {{}}
\* managers whose constructor raises in _init_managers: none, or all of them
\* (their stores and APIs are unreachable)
FailingInits == {{}, Managers}

NodeOf(k) == IF k = "i" THEN "manager_i" ELSE IF k = "m" THEN "manager_m"
             ELSE IF k = "s" THEN "manager_s" ELSE "manager_t"
KeyOf(n) == IF n = "manager_i" THEN "i" ELSE IF n = "manager_m" THEN "m"
            ELSE IF n = "manager_s" THEN "s" ELSE "t"
ManagerNodes == {NodeOf(k) : k \in Managers}

\* ------------------------------------------------------------------------
\* Message contents: a content string is a sequence of atoms; the handoff
\* marker "[HANDOFF_TO_X]" is the three atoms "[", "HANDOFF_TO_X", "]".
\* ------------------------------------------------------------------------
Word == <<"w">>
MarkerAtom(k) == IF k = "i" THEN "HANDOFF_TO_I" ELSE IF k = "m" THEN "HANDOFF_TO_M"
                 ELSE IF k = "s" THEN "HANDOFF_TO_S" ELSE "HANDOFF_TO_T"
\* the literal searched by _detect_handoff
Marker(k) == <<"[", MarkerAtom(k), "]">>

\* Python's `needle in content` on atom sequences
Contains(content, needle) ==
    \E i \in 1..(Len(content) - Len(needle) + 1) :
        SubSeq(content, i, i + Len(needle) - 1) = needle

\* ------------------------------------------------------------------------
\* Tools
\* ------------------------------------------------------------------------
HandoffToolName(k) == IF k = "i" THEN "handoff_to_manager_i"
                      ELSE IF k = "m" THEN "handoff_to_manager_m"
                      ELSE IF k = "s" THEN "handoff_to_manager_s"
                      ELSE "handoff_to_manager_t"
HandoffToolNames == {HandoffToolName(k) : k \in Managers}
HandoffKey(name) == CHOOSE k \in Managers : HandoffToolName(k) = name

\* handoff_to_manager_x(reason) -> f"[HANDOFF_TO_X] {reason}"
HandoffToolResult(k, reason) == Marker(k) \o reason

\* HumanInTheLoopMiddleware(interrupt_on=...) of each manager
InterruptOnM_NoAdd == {"update_memory", "delete_memory", "delete_all_memories"}
InterruptOnM == {"add_memory", "update_memory", "delete_memory", "delete_all_memories"}
InterruptOnT == {"create_calendar_event", "update_calendar_event", "delete_calendar_event"}
InterruptOnI == {"shutdown_mini_pc"}
InterruptOn(k) == IF k = "m" THEN InterruptOnM
                  ELSE IF k = "t" THEN InterruptOnT
                  ELSE IF k = "i" THEN InterruptOnI
                  ELSE {}

\* tools each manager creates in _create_tools
DomainTools(k) ==
    IF k = "m" THEN {"add_memory", "search_memories", "get_all_memories",
                     "update_memory", "delete_memory", "delete_all_memories"}
    ELSE IF k = "t" THEN {"create_calendar_event", "list_calendar_events",
                          "update_calendar_event", "delete_calendar_event",
                          "get_current_datetime", "get_today_events",
                          "get_tomorrow_events", "get_week_events"}
    ELSE IF k = "i" THEN {"shutdown_mini_pc", "turn_on_light", "turn_off_light",
                          "turn_on_speaker", "turn_off_speaker", "get_device_status"}
    ELSE {"search_web", "search_news"}

\* tools whose handlers write to the outside world (memory store, calendar,
\* mini PC); these are the tools the managers put behind the approval gate
SideEffectTools == {"add_memory", "update_memory", "delete_memory", "delete_all_memories",
                    "create_calendar_event", "update_calendar_event",
                    "delete_calendar_event", "shutdown_mini_pc"}

\* tools the LLM of manager k picks from in the exploration: one tool that
\* needs approval (if the manager has any), one that does not, and the
\* handoff tools to the other enabled managers (_init_managers)
ModelledDomainTools(k) ==
    IF k = "m" THEN {"add_memory", "search_memories"}
    ELSE IF k = "t" THEN {"create_calendar_event", "get_current_datetime"}
    ELSE IF k = "i" THEN {"shutdown_mini_pc", "turn_on_light"}
    ELSE {"search_web"}
HandoffToolsFor(k, mgrs) == {HandoffToolName(o) : o \in mgrs \ {k}}
LLMTools(k, mgrs) == ModelledDomainTools(k) \cup HandoffToolsFor(k, mgrs)
ToolList(k, mgrs) == DomainTools(k) \cup HandoffToolsFor(k, mgrs)

\* ------------------------------------------------------------------------
\* Messages
\* ------------------------------------------------------------------------
HumanMsg(c) == [type |-> "human", content |-> c, calls |-> <<>>, name |-> "", id |-> 0]
AIMsg(c, calls) == [type |-> "ai", content |-> c, calls |-> calls, name |-> "", id |-> 0]
ToolMsg(name, id, c) == [type |-> "tool", content |-> c, calls |-> <<>>, name |-> name, id |-> id]

ToolCall(name, args, id) == [name |-> name, args |-> args, id |-> id]
\* call ids are opaque and unique per log position
CallId(idx, j) == idx * 10 + j

IsPrefix(a, b) == Len(a) <= Len(b) /\ SubSeq(b, 1, Len(a)) = a
SeqMax(S) == CHOOSE x \in S : \A y \in S : y <= x

\* add_messages reducer of TeamHState.messages: new messages are appended
add_messages(existing, new) == existing \o new

\* ------------------------------------------------------------------------
\* Handoff detection (NodesMixin._detect_handoff)
\* ------------------------------------------------------------------------
\* a test that would look for the token without the square brackets
MarkerInBare(content) ==
    IF Contains(content, <<MarkerAtom("i")>>) THEN "i"
    ELSE IF Contains(content, <<MarkerAtom("m")>>) THEN "m"
    ELSE IF Contains(content, <<MarkerAtom("s")>>) THEN "s"
    ELSE IF Contains(content, <<MarkerAtom("t")>>) THEN "t"
    ELSE ""

MarkerIn(content) ==
    IF Contains(content, Marker("i")) THEN "i"
    ELSE IF Contains(content, Marker("m")) THEN "m"
    ELSE IF Contains(content, Marker("s")) THEN "s"
    ELSE IF Contains(content, Marker("t")) THEN "t"
    ELSE ""

\* a slip that would scan the whole log instead of the new messages
DetectHandoffWholeLog(messages, original_msg_count) ==
    LET hits == {j \in 1..Len(messages) :
                    messages[j].type = "tool" /\ MarkerIn(messages[j].content) # ""}
    IN IF hits = {} THEN "" ELSE MarkerIn(messages[SeqMax(hits)].content)

\* a scan that would go from the oldest new message to the newest
DetectHandoffOldestFirst(messages, original_msg_count) ==
    LET new_messages == SubSeq(messages, original_msg_count + 1, Len(messages))
        hits == {j \in 1..Len(new_messages) :
                    new_messages[j].type = "tool" /\ MarkerIn(new_messages[j].content) # ""}
    IN IF hits = {} THEN ""
       ELSE MarkerIn(new_messages[CHOOSE x \in hits : \A y \in hits : x <= y].content)

DetectHandoff(messages, original_msg_count) ==
    LET new_messages == SubSeq(messages, original_msg_count + 1, Len(messages))
        hits == {j \in 1..Len(new_messages) :
                    new_messages[j].type = "tool" /\ MarkerIn(new_messages[j].content) # ""}
    IN IF hits = {} THEN "" ELSE MarkerIn(new_messages[SeqMax(hits)].content)

\* ------------------------------------------------------------------------
\* Loop prevention and next-node decision (NodesMixin._execute_manager_node,
\* the part after the agent has returned).  "" stands for None.
\* ------------------------------------------------------------------------
NextAgentOffByOne(handoff_count, maxh, handoff_target) ==
    IF handoff_count > maxh THEN "end"
    ELSE IF handoff_target # "" THEN handoff_target
    ELSE "end"

NextAgentHandoffFirst(handoff_count, maxh, handoff_target) ==
    IF handoff_target # "" THEN handoff_target
    ELSE "end"

NextAgent(handoff_count, maxh, handoff_target) ==
    IF handoff_count >= maxh THEN "end"
    ELSE IF handoff_target # "" THEN handoff_target
    ELSE "end"

\* an update that would leave last_active_manager unset at END
LastActiveHandoffOnly(next_agent, manager_key) ==
    IF next_agent # "end" THEN next_agent ELSE ""

\* an update that would always name the manager that just ran
LastActiveAlwaysSelf(next_agent, manager_key) == manager_key

\* last_active_manager: the handoff target, or the manager itself at END
LastActive(next_agent, manager_key) ==
    IF next_agent # "end" THEN next_agent ELSE manager_key

\* a node that would return the agent's whole result as its update
ManagerCommandWholeResult(state, manager_key, result_messages, maxh) ==
    LET original_msg_count == Len(state.messages)
        handoff_count == state.handoff_count
        handoff_target == DetectHandoff(result_messages, original_msg_count)
        next_agent == NextAgent(handoff_count, maxh, handoff_target)
        last_active == LastActive(next_agent, manager_key)
    IN [goto |-> IF next_agent = "end" THEN "END" ELSE NodeOf(next_agent),
        messages |-> result_messages,
        handoff_count |-> handoff_count + (IF next_agent # "end" THEN 1 ELSE 0),
        current_agent |-> manager_key,
        last_active_manager |-> last_active,
        detected |-> handoff_target]

\* the Command returned by _execute_manager_node
ManagerCommand(state, manager_key, result_messages, maxh) ==
    LET original_msg_count == Len(state.messages)
        new_messages == SubSeq(result_messages, original_msg_count + 1, Len(result_messages))
        handoff_count == state.handoff_count
        handoff_target == DetectHandoff(result_messages, original_msg_count)
        next_agent == NextAgent(handoff_count, maxh, handoff_target)
        last_active == LastActive(next_agent, manager_key)
    IN [goto |-> IF next_agent = "end" THEN "END" ELSE NodeOf(next_agent),
        messages |-> new_messages,
        handoff_count |-> handoff_count + (IF next_agent # "end" THEN 1 ELSE 0),
        current_agent |-> manager_key,
        last_active_manager |-> last_active,
        detected |-> handoff_target]

\* ------------------------------------------------------------------------
\* One agent-node run: the create_agent loop (LLM turn, approval gate, tools
\* node) that manager_instance.agent.invoke drives.  The LLM's replies are
\* the environment's choice.
\* ------------------------------------------------------------------------
Arg1 == "a1"
Arg2 == "a2"

\* tool-call name lists the LLM may put in one assistant message
CallNameChoices(k, mgrs) ==
    {<<n>> : n \in LLMTools(k, mgrs)}
    \cup {<<a, b>> : a \in (ModelledDomainTools(k) \cap SideEffectTools),
                     b \in ModelledDomainTools(k)}

MakeCalls(names, idx) == [j \in 1..Len(names) |-> ToolCall(names[j], Arg1, CallId(idx, j))]

\* does the approval middleware of manager k gate this call
RequiresApproval(k, call) == call.name \in InterruptOn(k)

\* the calls of an assistant message that need approval, in order
RECURSIVE PendingActions(_, _)
PendingActions(k, calls) ==
    IF calls = <<>> THEN <<>>
    ELSE (IF RequiresApproval(k, Head(calls)) THEN <<Head(calls)>> ELSE <<>>)
         \o PendingActions(k, Tail(calls))

\* record of one execution of a side-effectful handler; via is the kind of
\* decision that released the call, "none" when no approval gate was passed
Execution(t, call, via) == [thread |-> t, id |-> call.id, name |-> call.name,
                            args |-> call.args, via |-> via]

\* tools node: run one call of manager k and give its Tool message
ToolResult(k, mgrs, call) ==
    IF call.name \in HandoffToolsFor(k, mgrs)
        THEN ToolMsg(call.name, call.id, HandoffToolResult(HandoffKey(call.name), Word))
    ELSE IF call.name \in DomainTools(k)
        THEN ToolMsg(call.name, call.id, Word)
    ELSE ToolMsg(call.name, call.id, <<"invalid_tool">>)

Executions(k, t, call, via) ==
    IF call.name \in DomainTools(k) /\ call.name \in SideEffectTools
        THEN <<Execution(t, call, via)>>
    ELSE <<>>

RECURSIVE RunCalls(_, _, _, _, _)
\* vias[j] is the decision kind that released calls[j]; "skip" = do not run
RunCalls(k, mgrs, t, calls, vias) ==
    IF calls = <<>> THEN [msgs |-> <<>>, execs |-> <<>>]
    ELSE LET rest == RunCalls(k, mgrs, t, Tail(calls), Tail(vias))
         IN IF Head(vias) = "skip" THEN rest
            ELSE [msgs |-> <<ToolResult(k, mgrs, Head(calls))>> \o rest.msgs,
                  execs |-> Executions(k, t, Head(calls), Head(vias)) \o rest.execs]

ToolTurns(produced) == Cardinality({j \in 1..Len(produced) :
                          produced[j].type = "ai" /\ produced[j].calls # <<>>})

\* All outcomes of the loop from a point where `produced` holds the messages
\* of this run so far and the LLM is about to be called.
\*   susp = TRUE : the approval gate suspended on the last assistant message
RECURSIVE AgentLoop(_, _, _, _, _, _)
AgentLoop(k, mgrs, t, base, produced, execs) ==
    LET idx == Len(base) + Len(produced) + 1
        final == {[msgs |-> produced \o <<AIMsg(Word, <<>>)>>, susp |-> FALSE,
                   actions |-> <<>>, execs |-> execs]}
        turn(names) ==
            LET calls == MakeCalls(names, idx)
                ai == AIMsg(Word, calls)
                actions == PendingActions(k, calls)
            IN IF actions # <<>>
                 THEN {[msgs |-> produced \o <<ai>>, susp |-> TRUE,
                        actions |-> actions, execs |-> execs]}
                 ELSE LET ran == RunCalls(k, mgrs, t, calls, [j \in 1..Len(calls) |-> "none"])
                      IN AgentLoop(k, mgrs, t, base, produced \o <<ai>> \o ran.msgs,
                                   execs \o ran.execs)
        fits(names) == idx + Len(names) <= MaxLog
    IN final \cup
       (IF ToolTurns(produced) < MaxTurns
          THEN UNION {turn(names) : names \in {c \in CallNameChoices(k, mgrs) : fits(c)}}
          ELSE {})

\* ------------------------------------------------------------------------
\* Resume: folding the decisions into the suspended assistant message
\* (HumanInTheLoopMiddleware, spec section 4.4)
\* ------------------------------------------------------------------------
Approve == [type |-> "approve", message |-> <<>>, name |-> "", args |-> ""]
Reject(m) == [type |-> "reject", message |-> m, name |-> "", args |-> ""]
Edit(n, a) == [type |-> "edit", message |-> <<>>, name |-> n, args |-> a]
Malformed == [type |-> "bogus", message |-> <<>>, name |-> "", args |-> ""]
RejectText == <<"not_now">>

EditedName(k) == IF k = "m" THEN "update_memory"
                 ELSE IF k = "t" THEN "update_calendar_event"
                 ELSE IF k = "i" THEN "shutdown_mini_pc"
                 ELSE "search_news"
DecisionChoices(k) == {Approve, Reject(RejectText), Edit(EditedName(k), Arg2), Malformed}

RECURSIVE SeqsUpTo(_, _)
SeqsUpTo(S, n) == IF n = 0 THEN {<<>>}
                  ELSE LET shorter == SeqsUpTo(S, n - 1)
                       IN shorter \cup {Append(q, x) : q \in {z \in shorter : Len(z) = n - 1}, x \in S}
DecisionLists(k) == SeqsUpTo(DecisionChoices(k), MaxDecisions)

DecisionTypes == {"approve", "edit", "reject"}
\* a validation that would only compare the lengths
DecisionsMatchLengthOnly(actions, decisions) ==
    Len(decisions) = Len(actions)

DecisionsMatch(actions, decisions) ==
    /\ Len(decisions) = Len(actions)
    /\ \A j \in 1..Len(decisions) : decisions[j].type \in DecisionTypes

\* number of approval-gated calls among calls[1..j]
ActionIndex(k, calls, j) == Cardinality({i \in 1..j : RequiresApproval(k, calls[i])})

\* a fold that would run the handler of a rejected call as well
FoldViaRunsRejected(k, calls, decisions, j) ==
    IF ~RequiresApproval(k, calls[j]) THEN "none"
    ELSE decisions[ActionIndex(k, calls, j)].type

\* a fold that would skip an approved call like a rejected one
FoldViaSkipsApproved(k, calls, decisions, j) ==
    IF ~RequiresApproval(k, calls[j]) THEN "none"
    ELSE LET d == decisions[ActionIndex(k, calls, j)]
         IN IF d.type \in {"reject", "approve"} THEN "skip" ELSE d.type

\* decision kind that releases calls[j]; a rejected call is skipped
FoldVia(k, calls, decisions, j) ==
    IF ~RequiresApproval(k, calls[j]) THEN "none"
    ELSE LET d == decisions[ActionIndex(k, calls, j)]
         IN IF d.type = "reject" THEN "skip" ELSE d.type

\* a fold that would take the edited name but keep the original arguments
FoldCallKeepsArgs(k, calls, decisions, j) ==
    IF ~RequiresApproval(k, calls[j]) THEN calls[j]
    ELSE LET d == decisions[ActionIndex(k, calls, j)]
         IN IF d.type = "edit" THEN ToolCall(d.name, calls[j].args, calls[j].id) ELSE calls[j]

\* the call the tools node gets for calls[j]: an edit replaces name and args
FoldCall(k, calls, decisions, j) ==
    IF ~RequiresApproval(k, calls[j]) THEN calls[j]
    ELSE LET d == decisions[ActionIndex(k, calls, j)]
         IN IF d.type = "edit" THEN ToolCall(d.name, d.args, calls[j].id) ELSE calls[j]

RECURSIVE RejectionMsgs(_, _, _, _)
RejectionMsgs(k, calls, decisions, j) ==
    IF j > Len(calls) THEN <<>>
    ELSE (IF RequiresApproval(k, calls[j])
             /\ decisions[ActionIndex(k, calls, j)].type = "reject"
          THEN <<ToolMsg(calls[j].name, calls[j].id,
                         decisions[ActionIndex(k, calls, j)].message)>>
          ELSE <<>>)
         \o RejectionMsgs(k, calls, decisions, j + 1)

\* outcomes of resuming manager k's suspended run with a matching decision list
ResumeOutcomes(k, mgrs, t, base, int, decisions) ==
    LET n == Len(int.produced)
        ai == int.produced[n]
        calls == ai.calls
        revised == [j \in 1..Len(calls) |-> FoldCall(k, calls, decisions, j)]
        vias == [j \in 1..Len(calls) |-> FoldVia(k, calls, decisions, j)]
        ran == RunCalls(k, mgrs, t, revised, vias)
        produced == SubSeq(int.produced, 1, n - 1) \o <<AIMsg(ai.content, revised)>>
                    \o RejectionMsgs(k, calls, decisions, 1) \o ran.msgs
    IN AgentLoop(k, mgrs, t, base, produced, ran.execs)

\* ------------------------------------------------------------------------
\* State merge: how the update of a node's Command is folded into TeamHState.
\* messages has the add_messages reducer, every other field takes the
\* update's value when the update has the field.
\* ------------------------------------------------------------------------
\* marks of a field that an update does not have
AbsentStr == "absent"
AbsentInt == 0 - 1

Partial(messages, handoff_count, current_agent, last_active_manager, routing_reason) ==
    [messages |-> messages, handoff_count |-> handoff_count,
     current_agent |-> current_agent, last_active_manager |-> last_active_manager,
     routing_reason |-> routing_reason]

\* updates of the kinds the nodes and the gateway give: the input message, the
\* router's update, a manager's update, an update that sets the agent fields
\* back to None, and the empty update
PartialUpdates ==
    {Partial(<<HumanMsg(Word)>>, AbsentInt, AbsentStr, AbsentStr, AbsentStr),
     Partial(<<>>, AbsentInt, "m", AbsentStr, "llm reason"),
     Partial(<<AIMsg(Word, <<>>), AIMsg(Word, <<>>)>>, 1, "s", "m", AbsentStr),
     Partial(<<>>, AbsentInt, "", "", AbsentStr),
     Partial(<<>>, AbsentInt, AbsentStr, AbsentStr, AbsentStr)}

\* a merge in which a field that is already set would keep its value
MergeFillsUnsetOnly(S, P) ==
    [S EXCEPT !.messages = add_messages(@, P.messages),
              !.handoff_count = IF P.handoff_count = AbsentInt \/ @ # 0 THEN @
                                ELSE P.handoff_count,
              !.current_agent = IF P.current_agent = AbsentStr \/ @ # "" THEN @
                                ELSE P.current_agent,
              !.last_active_manager = IF P.last_active_manager = AbsentStr \/ @ # "" THEN @
                                      ELSE P.last_active_manager,
              !.routing_reason = IF P.routing_reason = AbsentStr \/ @ # "" THEN @
                                 ELSE P.routing_reason]

\* TeamHState channels applying one update
Merge(S, P) ==
    [S EXCEPT !.messages = add_messages(@, P.messages),
              !.handoff_count = IF P.handoff_count = AbsentInt THEN @ ELSE P.handoff_count,
              !.current_agent = IF P.current_agent = AbsentStr THEN @ ELSE P.current_agent,
              !.last_active_manager = IF P.last_active_manager = AbsentStr THEN @
                                      ELSE P.last_active_manager,
              !.routing_reason = IF P.routing_reason = AbsentStr THEN @
                                 ELSE P.routing_reason]

\* two updates made into one: message lists concatenated, of every other
\* field the later value
MergePartials(P1, P2) ==
    Partial(P1.messages \o P2.messages,
            IF P2.handoff_count = AbsentInt THEN P1.handoff_count ELSE P2.handoff_count,
            IF P2.current_agent = AbsentStr THEN P1.current_agent ELSE P2.current_agent,
            IF P2.last_active_manager = AbsentStr THEN P1.last_active_manager
            ELSE P2.last_active_manager,
            IF P2.routing_reason = AbsentStr THEN P1.routing_reason ELSE P2.routing_reason)

\* ------------------------------------------------------------------------
\* Goal database: the goals and progress tables and their CRUD functions
\* (src/database/postgres).  A table is the sequence of its rows in the order
\* of insertion; the autoincrement key of a row is its position.
\* ------------------------------------------------------------------------
MaxGoals == 2
MaxProgresses == 2

\* None as an argument, and None as the row a lookup gives
None == "None"
NoRow == [none |-> TRUE]
Texts == {"a", "b"}

EmptyDb == [goals |-> <<>>, progress |-> <<>>]

\* a filter that would let every row through
AnyRow(row) == TRUE

\* .filter(<Model>.delete_yn == False)
NotDeleted(row) == row.delete_yn = FALSE

RECURSIVE Filter(_, _)
Filter(rows, i) ==
    IF i > Len(rows) THEN <<>>
    ELSE (IF NotDeleted(rows[i]) THEN <<rows[i]>> ELSE <<>>) \o Filter(rows, i + 1)

\* .offset(skip).limit(limit).all()
OffsetLimit(rows, skip, limit) ==
    SubSeq(rows, skip + 1, IF skip + limit < Len(rows) THEN skip + limit ELSE Len(rows))

\* .first() of the rows with the key (None when there is none)
First(rows) == IF rows = <<>> THEN NoRow ELSE rows[1]

create_goal(d, title, content) ==
    [d EXCEPT !.goals = Append(@, [index |-> Len(@) + 1, title |-> title,
                                   content |-> content, delete_yn |-> FALSE])]

get_goal(d, goal_index) ==
    First(SelectSeq(d.goals, LAMBDA g : g.index = goal_index /\ NotDeleted(g)))

get_goals(d, skip, limit) == OffsetLimit(Filter(d.goals, 1), skip, limit)

update_goal(d, goal_index, title, content) ==
    IF get_goal(d, goal_index) = NoRow THEN d
    ELSE [d EXCEPT !.goals[goal_index].title = IF title # None THEN title ELSE @,
                   !.goals[goal_index].content = IF content # None THEN content ELSE @]

delete_goal(d, goal_index) ==
    IF get_goal(d, goal_index) = NoRow THEN d
    ELSE [d EXCEPT !.goals[goal_index].delete_yn = TRUE]

create_progress(d, goal_id, progress_content) ==
    [d EXCEPT !.progress = Append(@, [progress_id |-> Len(@) + 1, goal_id |-> goal_id,
                                      progress_content |-> progress_content,
                                      delete_yn |-> FALSE])]

get_progress(d, progress_id) ==
    First(SelectSeq(d.progress,
                    LAMBDA p : p.progress_id = progress_id /\ NotDeleted(p)))

get_progresses_by_goal(d, goal_id, skip, limit) ==
    OffsetLimit(SelectSeq(Filter(d.progress, 1), LAMBDA p : p.goal_id = goal_id),
                skip, limit)

update_progress(d, progress_id, progress_content) ==
    IF get_progress(d, progress_id) = NoRow THEN d
    ELSE [d EXCEPT !.progress[progress_id].progress_content =
                       IF progress_content # None THEN progress_content ELSE @]

delete_progress(d, progress_id) ==
    IF get_progress(d, progress_id) = NoRow THEN d
    ELSE [d EXCEPT !.progress[progress_id].delete_yn = TRUE]

\* ------------------------------------------------------------------------
\* Streaming: the events astream_events(version="v2") gives for one node
\* execution, and their translation into SSE events by generate_sse_stream
\* ------------------------------------------------------------------------
\* one astream_events event: type, name, metadata.langgraph_node, and of its
\* data whether the chunk has content and the target_agent of an AgentRouting
\* output ("" for any other output)
RawEvent(type, name, node, content, target) ==
    [type |-> type, name |-> name, node |-> node, content |-> content, target |-> target]

\* names under which the agent's inner graph runs its LLM and its tools
ModelNode == "model"
ToolsNode == "tools"

ChainStart(name, node) == RawEvent("on_chain_start", name, node, FALSE, "")
ChainEnd(name, node, target) == RawEvent("on_chain_end", name, node, FALSE, target)

\* an LLM call: start, a chunk without content, a chunk with content, end
LLMCallRaw(node) ==
    <<RawEvent("on_chat_model_start", "ChatOpenAI", node, FALSE, ""),
      RawEvent("on_chat_model_stream", "ChatOpenAI", node, FALSE, ""),
      RawEvent("on_chat_model_stream", "ChatOpenAI", node, TRUE, ""),
      RawEvent("on_chat_model_end", "ChatOpenAI", node, TRUE, "")>>

ToolRunRaw(name) ==
    <<RawEvent("on_tool_start", name, ToolsNode, FALSE, ""),
      RawEvent("on_tool_end", name, ToolsNode, FALSE, "")>>

\* a sticky branch that would still run the structured-output sequence
RouterStickyRawWithSequence ==
    <<ChainStart("router", "router"), ChainStart("RunnableSequence", "router"),
      ChainEnd("RunnableSequence", "router", "m"), ChainEnd("router", "router", "")>>

\* router node taking the sticky branch: only the node's own chain events
RouterStickyRaw ==
    <<ChainStart("router", "router"), ChainEnd("router", "router", "")>>

\* router node calling router_llm.with_structured_output(AgentRouting): the
\* sequence of the LLM and the step that builds the AgentRouting; both that
\* step and the sequence end with the AgentRouting as output
RouterLLMRaw(target) ==
    <<ChainStart("router", "router"), ChainStart("RunnableSequence", "router")>>
    \o LLMCallRaw("router")
    \o <<ChainStart("RunnableLambda", "router"), ChainEnd("RunnableLambda", "router", target),
         ChainEnd("RunnableSequence", "router", target), ChainEnd("router", "router", "")>>

\* events of the messages an agent run produced: an LLM call per assistant
\* message, a tool run per Tool message
RECURSIVE MsgsRaw(_)
MsgsRaw(msgs) ==
    IF msgs = <<>> THEN <<>>
    ELSE (IF Head(msgs).type = "ai" THEN LLMCallRaw(ModelNode)
          ELSE IF Head(msgs).type = "tool" THEN ToolRunRaw(Head(msgs).name)
          ELSE <<>>)
         \o MsgsRaw(Tail(msgs))

\* manager node k whose agent run produced msgs; a suspended run has no
\* chain end
ManagerRaw(k, msgs, suspended) ==
    <<ChainStart(NodeOf(k), NodeOf(k))>> \o MsgsRaw(msgs)
    \o (IF suspended THEN <<>> ELSE <<ChainEnd(NodeOf(k), NodeOf(k), "")>>)

\* one SSE event; info is the event's payload that matters here (node,
\* node_name, tool_name, current_agent or target_agent), src the
\* langgraph_node of the astream_events event it was made from
SSE(event, info, src) == [event |-> event, info |-> info, src |-> src]

\* a test that would know only one of the agent nodes
IsManagerNodeOnlyM(node) == node = NodeOf("m")

\* langgraph_node.startswith("manager_")
IsManagerNode(node) == node \in ManagerNodes

\* a filter that would let the router's tokens and llm_end through
FromRouterNever(ev) == FALSE

\* langgraph_node == "router": the event comes from inside the router node
FromRouter(ev) == ev.node = "router"

\* a test that would take every chain end in the router with a routing output
IsRouterDecisionAnyChain(ev) ==
    ev.node = "router" /\ ev.target # ""

\* the chain end that becomes router_decision: in the router node, named
\* RunnableSequence, with an output that has target_agent and reason
IsRouterDecision(ev) ==
    ev.node = "router" /\ ev.name = "RunnableSequence" /\ ev.target # ""

\* the body of the `async for event` loop of generate_sse_stream
TranslateOne(ev, current_manager) ==
    IF ev.type = "on_chat_model_start"
        THEN [out |-> <<SSE("llm_start", ev.node, ev.node)>>, cm |-> current_manager]
    ELSE IF ev.type = "on_chat_model_stream"
        THEN (IF ~ev.content THEN [out |-> <<>>, cm |-> current_manager]
              ELSE IF FromRouter(ev) THEN [out |-> <<>>, cm |-> current_manager]
              ELSE [out |-> <<SSE("token", current_manager, ev.node)>>, cm |-> current_manager])
    ELSE IF ev.type = "on_chat_model_end"
        THEN (IF FromRouter(ev) THEN [out |-> <<>>, cm |-> current_manager]
              ELSE [out |-> <<SSE("llm_end", ev.node, ev.node)>>, cm |-> current_manager])
    ELSE IF ev.type = "on_tool_start"
        THEN [out |-> <<SSE("tool_start", ev.name, ev.node)>>, cm |-> current_manager]
    ELSE IF ev.type = "on_tool_end"
        THEN [out |-> <<SSE("tool_end", ev.name, ev.node)>>, cm |-> current_manager]
    ELSE IF ev.type = "on_chain_start"
        THEN (IF IsManagerNode(ev.node)
                THEN [out |-> <<SSE("agent_change", KeyOf(ev.node), ev.node),
                                SSE("node_start", ev.name, ev.node)>>,
                      cm |-> KeyOf(ev.node)]
                ELSE [out |-> <<SSE("node_start", ev.name, ev.node)>>, cm |-> current_manager])
    ELSE IF ev.type = "on_chain_end"
        THEN (IF IsRouterDecision(ev)
                THEN [out |-> <<SSE("router_decision", ev.target, ev.node)>>,
                      cm |-> current_manager]
                ELSE [out |-> <<SSE("node_end", ev.name, ev.node)>>, cm |-> current_manager])
    ELSE [out |-> <<>>, cm |-> current_manager]

\* the loop over a sequence of events, threading current_manager
RECURSIVE Translate(_, _)
Translate(raws, current_manager) ==
    IF raws = <<>> THEN [out |-> <<>>, cm |-> current_manager]
    ELSE LET one == TranslateOne(Head(raws), current_manager)
             rest == Translate(Tail(raws), one.cm)
         IN [out |-> one.out \o rest.out, cm |-> rest.cm]

\* before the loop: agent_start when the thread's snapshot names a manager
InitialManager(snapshot) ==
    IF snapshot.current_agent # "" THEN snapshot.current_agent
    ELSE snapshot.last_active_manager

InitialEvents(snapshot) ==
    IF InitialManager(snapshot) # ""
        THEN <<SSE("agent_start", InitialManager(snapshot), "")>>
        ELSE <<>>

\* ------------------------------------------------------------------------
\* A node function called on its own (NodesMixin._router_node and
\* _execute_manager_node), for any team the constructor can build, any
\* persisted state and any result of the agent
\* ------------------------------------------------------------------------
MaxCalls == 2           \* tool calls in the assistant message of the agent run

\* no node has been called yet
NoNode == [phase |-> "new", enabled |-> {}, nodes |-> {}, key |-> "",
           state |-> [messages |-> <<>>, handoff_count |-> 0, last_active_manager |-> ""],
           names |-> <<>>, produced |-> <<>>,
           cmd |-> [goto |-> "", messages |-> <<>>, handoff_count |-> 0,
                    current_agent |-> "", last_active_manager |-> "", detected |-> ""]]

\* enable flags the constructor is called with, and managers whose
\* constructor raises
TeamFlags == {{"m", "s"}, Managers}
TeamFailing == {{}, {"s"}}

\* texts a tool hands back and texts an LLM passes as the reason of a handoff:
\* plain, with a marker inside, a marker alone, and the marker's token
\* without the square brackets
ToolTexts == {Word,
              <<"w">> \o Marker("m") \o <<"w">>,
              Marker("i"),
              <<"w", MarkerAtom("s"), "w">>}

\* the tools node running one call of manager k: a handoff tool gives its
\* marker and the reason, any other tool gives its text
ToolOutput(name, text) ==
    IF name \in HandoffToolNames THEN HandoffToolResult(HandoffKey(name), text) ELSE text

\* messages of an agent run with one assistant message calling names, the
\* Tool message of every call, and the closing assistant message
RunMessages(names, texts, idx) ==
    IF names = <<>> THEN <<AIMsg(Word, <<>>)>>
    ELSE <<AIMsg(Word, MakeCalls(names, idx))>>
         \o [j \in 1..Len(names) |->
                ToolMsg(names[j], CallId(idx, j), ToolOutput(names[j], texts[j]))]
         \o <<AIMsg(Word, <<>>)>>

\* logs a node is called on: a first request, and a later request on a log
\* that holds a handoff of an earlier one
Histories ==
    {<<HumanMsg(Word)>>,
     <<HumanMsg(Word), AIMsg(Word, MakeCalls(<<HandoffToolName("s")>>, 2)),
       ToolMsg(HandoffToolName("s"), CallId(2, 1), HandoffToolResult("s", Word)),
       AIMsg(Word, <<>>), HumanMsg(Word)>>}

\* ------------------------------------------------------------------------
\* State
\* ------------------------------------------------------------------------
VARIABLES
    max_handoffs,   \* TeamHGraph.max_handoffs
    managers,       \* keys k whose manager_k is not None (nodes of the graph)
    store,          \* checkpointer: latest checkpoint of each thread id
    req,            \* the request tasks (one per in-flight HTTP request)
    executed,       \* executions of side-effectful tool handlers, in order
    accepted,       \* numbers of stream and resume requests the gateway has accepted
    db,             \* the goals and progress tables of the goal database
    deleted,        \* keys on which delete_goal / delete_progress have succeeded
    nd              \* one node function called on its own: its inputs and its Command

vars == <<max_handoffs, managers, store, req, executed, accepted, db, deleted, nd>>

NoInterrupt == [node |-> "", produced |-> <<>>, actions |-> <<>>]

\* TeamHState defaults plus the checkpoint's bookkeeping:
\*   cid       checkpoint id, increasing per thread
\*   next      pending node ("" = none)
\*   interrupt pending interrupt record of the pending node
\*   endedBy   manager whose node went to END to produce this checkpoint
EmptyState == [cid |-> 0, messages |-> <<>>, handoff_count |-> 0,
               current_agent |-> "", last_active_manager |-> "",
               routing_reason |-> "", next |-> "", interrupt |-> NoInterrupt,
               endedBy |-> ""]

IdleReq(outcome) == [pc |-> "idle", kind |-> "", thread |-> "", st |-> EmptyState,
                     decisions |-> <<>>, outcome |-> outcome,
                     prevAgent |-> "", target |-> "", routerLLM |-> FALSE,
                     events |-> <<>>, cm |-> ""]

\* the task's record after the loop of generate_sse_stream has translated raws
Emit(rq, raws) ==
    LET tr == Translate(raws, rq.cm)
    IN [rq EXCEPT !.events = @ \o tr.out, !.cm = tr.cm]

Nodes == {"router"} \cup {NodeOf(k) : k \in managers}

\* TeamHGraph.__init__: the assert on the enable flags, then _init_managers,
\* which leaves manager_x = None for a manager whose constructor raises, then
\* _build_graph, which adds a node for every manager that is not None
TeamHGraphInit(enabled, failing) ==
    IF enabled = {}
        THEN [raised |-> "AssertionError", managers |-> {}]
        ELSE [raised |-> "", managers |-> enabled \ failing]

Init ==
    /\ max_handoffs \in 0..MaxHandoffsCfg
    /\ \E enabled \in EnableFlagConfigs, failing \in FailingInits :
          /\ TeamHGraphInit(enabled, failing).raised = ""
          /\ managers = TeamHGraphInit(enabled, failing).managers
    /\ store = [t \in Threads |-> EmptyState]
    /\ req = [r \in Reqs |-> IdleReq("none")]
    /\ executed = <<>>
    /\ accepted = [stream |-> 0, resume |-> 0]
    /\ db = EmptyDb
    /\ deleted = [goals |-> {}, progress |-> {}, later |-> FALSE]
    /\ nd = NoNode

\* ------------------------------------------------------------------------
\* Router node (NodesMixin._router_node)
\* ------------------------------------------------------------------------
StickyReason == "Continuing with last active manager"
LLMReason == "llm reason"

RouterSticky(state) ==
    [goto |-> NodeOf(state.last_active_manager),
     routing_reason |-> StickyReason,
     current_agent |-> state.last_active_manager]

RouterRouted(target) ==
    [goto |-> NodeOf(target), routing_reason |-> LLMReason, current_agent |-> target]

\* ------------------------------------------------------------------------
\* Executor steps
\* ------------------------------------------------------------------------
\* the request task ends with an error event; nothing is written
ErrLLM == "error: llm provider"
ErrGoto == "error: unknown node"
ErrDecisions == "error: decisions do not match"
ErrNoThread == "error: unknown thread"
ErrNoInterrupt == "error: nothing to resume"
ErrTool == "error: tool handler"
Errors == {ErrLLM, ErrGoto, ErrDecisions, ErrNoThread, ErrNoInterrupt, ErrTool}

\* an abort that would leave a part of the unfinished step in the checkpoint
FailPersistsPartial(r, e) ==
    /\ req' = [req EXCEPT ![r] = IdleReq(e)]
    /\ store' = [store EXCEPT ![req[r].thread].messages = @ \o <<AIMsg(Word, <<>>)>>]

\* an abort that would take the thread's checkpoint with it
FailDropsCheckpoint(r, e) ==
    /\ req' = [req EXCEPT ![r] = IdleReq(e)]
    /\ store' = [store EXCEPT ![req[r].thread] = EmptyState]

\* an exception leaves the graph run: the request ends with an error event and
\* nothing of the unfinished step is written
Fail(r, e) ==
    /\ req' = [req EXCEPT ![r] = IdleReq(e)]
    /\ UNCHANGED store

\* a commit that would keep the pending interrupt in the new checkpoint
CommitKeepsInterrupt(r, rq, st2, goto, ender) ==
    LET t == rq.thread
        nxt == IF goto = "END" THEN "" ELSE goto
        saved == [st2 EXCEPT !.cid = store[t].cid + 1, !.next = nxt,
                             !.endedBy = IF goto = "END" THEN ender ELSE ""]
    IN /\ store' = [store EXCEPT ![t] = saved]
       /\ req' = [req EXCEPT ![r] = [rq EXCEPT !.st = saved,
                                               !.pc = IF nxt = "" THEN "fin" ELSE "node"]]

\* a node finished: its update has been merged into st2, the result becomes
\* the thread's latest checkpoint, and the task moves on to the node named by
\* goto.  rq is the task's record with its bookkeeping already updated.
Commit(r, rq, st2, goto, ender) ==
    LET t == rq.thread
        nxt == IF goto = "END" THEN "" ELSE goto
        saved == [st2 EXCEPT !.cid = store[t].cid + 1, !.next = nxt,
                             !.interrupt = NoInterrupt,
                             !.endedBy = IF goto = "END" THEN ender ELSE ""]
    IN /\ store' = [store EXCEPT ![t] = saved]
       /\ req' = [req EXCEPT ![r] = [rq EXCEPT !.st = saved,
                                               !.pc = IF nxt = "" THEN "fin" ELSE "node"]]

\* goto may name a node that the compiled graph does not have: the run then
\* either fails or ends with no next node
CommitOrLost(r, rq, st2, goto, ender) ==
    IF goto = "END" \/ goto \in Nodes
        THEN Commit(r, rq, st2, goto, ender)
        ELSE Fail(r, ErrGoto) \/ Commit(r, rq, st2, "END", "")

\* a suspension that would attach the interrupt to whatever checkpoint is the
\* thread's latest
SuspendAnyCheckpoint(r, rq, rec) ==
    LET t == rq.thread
    IN /\ store' = [store EXCEPT ![t].interrupt = rec]
       /\ req' = [req EXCEPT ![r] = [rq EXCEPT !.pc = "fin", !.st.interrupt = rec]]

\* the approval gate suspended the node: the interrupt record is attached to
\* the checkpoint the task is running from, and the stream is about to end
Suspend(r, rq, rec) ==
    LET t == rq.thread
    IN /\ store' = IF store[t].cid = rq.st.cid
                     THEN [store EXCEPT ![t].interrupt = rec]
                     ELSE store
       /\ req' = [req EXCEPT ![r] = [rq EXCEPT !.pc = "fin", !.st.interrupt = rec]]

\* number of requests the gateway has accepted
Accepted == accepted.stream + accepted.resume

\* Request tasks and thread ids are interchangeable: a new request takes the
\* lowest free task slot, and thread ids come into use in a fixed order.
FreeSlot(r) == req[r].pc = "idle" /\ \A q \in Reqs : q < r => req[q].pc # "idle"
ThreadOrder == <<"t1", "t2">>
KnownOrNext(t) == \A j \in 1..Len(ThreadOrder) :
                     ThreadOrder[j] = t => \A i \in 1..(j - 1) : store[ThreadOrder[i]].cid > 0

\* a stream request whose config would name one thread id for every request
ChatStreamOneConfig(r, t) ==
    /\ FreeSlot(r)
    /\ KnownOrNext(t)
    /\ Accepted < MaxRequests /\ accepted.stream < MaxStreams
    /\ accepted' = [accepted EXCEPT !.stream = @ + 1]
    /\ Len(store[t].messages) < MaxLog
    /\ Len(store[ThreadOrder[1]].messages) < MaxLog
    /\ LET loaded == store[ThreadOrder[1]]
           st2 == [loaded EXCEPT !.messages = add_messages(@, <<HumanMsg(Word)>>),
                                 !.handoff_count = 0,
                                 !.cid = loaded.cid + 1,
                                 !.next = "router",
                                 !.interrupt = NoInterrupt,
                                 !.endedBy = ""]
       IN /\ store' = [store EXCEPT ![ThreadOrder[1]] = st2]
          /\ req' = [req EXCEPT ![r] = [pc |-> "node", kind |-> "stream", thread |-> t,
                                        st |-> st2, decisions |-> <<>>, outcome |-> "none",
                                        prevAgent |-> loaded.endedBy, target |-> "",
                                        routerLLM |-> FALSE,
                                        events |-> InitialEvents(loaded),
                                        cm |-> InitialManager(loaded)]]
    /\ UNCHANGED <<max_handoffs, managers, db, deleted, nd, executed>>

\* a stream request whose input would leave handoff_count as it is
ChatStreamKeepsCount(r, t) ==
    /\ FreeSlot(r)
    /\ KnownOrNext(t)
    /\ Accepted < MaxRequests /\ accepted.stream < MaxStreams
    /\ accepted' = [accepted EXCEPT !.stream = @ + 1]
    /\ Len(store[t].messages) < MaxLog
    /\ LET loaded == store[t]
           st2 == [loaded EXCEPT !.messages = add_messages(@, <<HumanMsg(Word)>>),
                                 !.cid = loaded.cid + 1,
                                 !.next = "router",
                                 !.interrupt = NoInterrupt,
                                 !.endedBy = ""]
       IN /\ store' = [store EXCEPT ![t] = st2]
          /\ req' = [req EXCEPT ![r] = [pc |-> "node", kind |-> "stream", thread |-> t,
                                        st |-> st2, decisions |-> <<>>, outcome |-> "none",
                                        prevAgent |-> loaded.endedBy, target |-> "",
                                        routerLLM |-> FALSE,
                                        events |-> InitialEvents(loaded),
                                        cm |-> InitialManager(loaded)]]
    /\ UNCHANGED <<max_handoffs, managers, db, deleted, nd, executed>>

\* a stream request that would go on from the thread's pending interrupt
ChatStreamResumes(r, t) ==
    /\ FreeSlot(r)
    /\ KnownOrNext(t)
    /\ Accepted < MaxRequests /\ accepted.stream < MaxStreams
    /\ accepted' = [accepted EXCEPT !.stream = @ + 1]
    /\ Len(store[t].messages) < MaxLog
    /\ LET loaded == store[t]
           st2 == [loaded EXCEPT !.messages = add_messages(@, <<HumanMsg(Word)>>),
                                 !.handoff_count = 0,
                                 !.cid = loaded.cid + 1,
                                 !.next = IF loaded.interrupt # NoInterrupt
                                            THEN loaded.interrupt.node ELSE "router",
                                 !.endedBy = ""]
       IN /\ store' = [store EXCEPT ![t] = st2]
          /\ req' = [req EXCEPT ![r] = [pc |-> "node", kind |-> "stream", thread |-> t,
                                        st |-> st2, decisions |-> <<>>, outcome |-> "none",
                                        prevAgent |-> loaded.endedBy, target |-> "",
                                        routerLLM |-> FALSE,
                                        events |-> InitialEvents(loaded),
                                        cm |-> InitialManager(loaded)]]
    /\ UNCHANGED <<max_handoffs, managers, db, deleted, nd, executed>>

\* POST /chat/stream: initial_state = {messages: [HumanMessage], handoff_count: 0}
\* is merged into the thread's latest checkpoint and execution starts at the
\* entry point
ChatStream(r, t) ==
    /\ FreeSlot(r)
    /\ KnownOrNext(t)
    /\ Accepted < MaxRequests /\ accepted.stream < MaxStreams
    /\ accepted' = [accepted EXCEPT !.stream = @ + 1]
    /\ Len(store[t].messages) < MaxLog
    /\ LET loaded == store[t]
           st2 == [loaded EXCEPT !.messages = add_messages(@, <<HumanMsg(Word)>>),
                                 !.handoff_count = 0,
                                 !.cid = loaded.cid + 1,
                                 !.next = "router",
                                 !.interrupt = NoInterrupt,
                                 !.endedBy = ""]
       IN /\ store' = [store EXCEPT ![t] = st2]
          /\ req' = [req EXCEPT ![r] = [pc |-> "node", kind |-> "stream", thread |-> t,
                                        st |-> st2, decisions |-> <<>>, outcome |-> "none",
                                        prevAgent |-> loaded.endedBy, target |-> "",
                                        routerLLM |-> FALSE,
                                        events |-> InitialEvents(loaded),
                                        cm |-> InitialManager(loaded)]]
    /\ UNCHANGED <<max_handoffs, managers, db, deleted, nd, executed>>

AtRouter(r) == req[r].pc = "node" /\ req[r].st.next = "router"
AtManager(r) == req[r].pc = "node" /\ req[r].st.next \in ManagerNodes

\* router node with a persisted last_active_manager: no LLM call
RouterContinue(r) ==
    /\ AtRouter(r)
    /\ req[r].st.last_active_manager # ""
    /\ LET st == req[r].st
           cmd == RouterSticky(st)
           st2 == [st EXCEPT !.routing_reason = cmd.routing_reason,
                             !.current_agent = cmd.current_agent]
           rq == Emit([req[r] EXCEPT !.target = cmd.current_agent], RouterStickyRaw)
       IN CommitOrLost(r, rq, st2, cmd.goto, "")
    /\ UNCHANGED <<max_handoffs, managers, db, deleted, nd, executed, accepted>>

\* router node on the first turn: structured-output LLM call
RouterLLM(r) ==
    /\ AtRouter(r)
    /\ req[r].st.last_active_manager = ""
    /\ \E target \in Managers :
          LET st == req[r].st
              cmd == RouterRouted(target)
              st2 == [st EXCEPT !.routing_reason = cmd.routing_reason,
                                !.current_agent = cmd.current_agent]
              rq == Emit([req[r] EXCEPT !.target = target, !.routerLLM = TRUE],
                         RouterLLMRaw(target))
          IN CommitOrLost(r, rq, st2, cmd.goto, "")
    /\ UNCHANGED <<max_handoffs, managers, db, deleted, nd, executed, accepted>>

\* an LLM provider call raises inside a node: the router's structured-output
\* call, or the first LLM call of an agent run
LLMFails(r) ==
    /\ \/ AtRouter(r) /\ req[r].st.last_active_manager = ""
       \/ AtManager(r)
    /\ Fail(r, ErrLLM)
    /\ UNCHANGED <<max_handoffs, managers, db, deleted, nd, executed, accepted>>

\* what a finished agent run makes of the node (merge of the Command's update)
FinishNode(r, rq, k, produced) ==
    LET st == rq.st
        cmd == ManagerCommand(st, k, st.messages \o produced, max_handoffs)
        st2 == [st EXCEPT !.messages = add_messages(@, cmd.messages),
                          !.handoff_count = cmd.handoff_count,
                          !.current_agent = cmd.current_agent,
                          !.last_active_manager = cmd.last_active_manager]
    IN CommitOrLost(r, rq, st2, cmd.goto, k)

\* manager node, fresh run (NodesMixin._execute_manager_node)
ManagerRun(r) ==
    /\ AtManager(r)
    /\ req[r].st.interrupt = NoInterrupt
    /\ LET k == KeyOf(req[r].st.next)
           t == req[r].thread
       IN \E o \in AgentLoop(k, managers, t, req[r].st.messages, <<>>, <<>>) :
             /\ executed' = executed \o o.execs
             /\ LET rq == Emit(req[r], ManagerRaw(k, o.msgs, o.susp))
                IN IF o.susp
                     THEN Suspend(r, rq, [node |-> req[r].st.next, produced |-> o.msgs,
                                          actions |-> o.actions])
                     ELSE FinishNode(r, rq, k, o.msgs)
    /\ UNCHANGED <<max_handoffs, managers, db, deleted, nd, accepted>>

\* the messages of a resumed run that are produced while this request
\* streams: those after the suspended assistant message, without the Tool
\* messages synthesized for rejected calls
ResumedMsgs(int, decisions, msgs) ==
    LET rejected == Cardinality({j \in 1..Len(decisions) : decisions[j].type = "reject"})
    IN SubSeq(msgs, Len(int.produced) + rejected + 1, Len(msgs))

\* manager node re-entered by a resume: the suspended run continues with the
\* decisions; a decision list that does not match aborts the request
ManagerResume(r) ==
    /\ AtManager(r)
    /\ req[r].st.interrupt # NoInterrupt
    /\ LET k == KeyOf(req[r].st.next)
           t == req[r].thread
           int == req[r].st.interrupt
       IN IF ~DecisionsMatch(int.actions, req[r].decisions)
            THEN Fail(r, ErrDecisions) /\ UNCHANGED executed
            ELSE \E o \in ResumeOutcomes(k, managers, t, req[r].st.messages, int,
                                         req[r].decisions) :
                   /\ executed' = executed \o o.execs
                   /\ LET rq == Emit(req[r], ManagerRaw(k, ResumedMsgs(int, req[r].decisions,
                                                                        o.msgs), o.susp))
                      IN IF o.susp
                           THEN Suspend(r, rq, [node |-> req[r].st.next, produced |-> o.msgs,
                                                actions |-> o.actions])
                           ELSE FinishNode(r, rq, k, o.msgs)
    /\ UNCHANGED <<max_handoffs, managers, db, deleted, nd, accepted>>

\* the middleware list manager k's agent is created with: the graph's common
\* list (the Langfuse tool logging) followed by the manager's own approval
\* middleware
MiddlewareList(k) ==
    <<"LangfuseToolLoggingMiddleware">>
    \o (IF InterruptOn(k) # {} THEN <<"HumanInTheLoopMiddleware">> ELSE <<>>)

\* wrap_tool_call of a middleware: only ToolErrorHandlerMiddleware turns an
\* exception of the handler into a Tool message; the logging middleware logs
\* and raises again
CatchesToolError(mw) == mw = "ToolErrorHandlerMiddleware"

\* what becomes of an exception raised by a tool handler of manager k
HandlerRaise(k) ==
    IF \E j \in 1..Len(MiddlewareList(k)) : CatchesToolError(MiddlewareList(k)[j])
        THEN "tool message" ELSE "raised"

\* a tool handler raises inside a manager node's agent run: the handlers
\* before it have run, the exception leaves agent.invoke and the node
ToolFails(r) ==
    /\ AtManager(r)
    /\ LET k == KeyOf(req[r].st.next)
           t == req[r].thread
           int == req[r].st.interrupt
           outs == IF int = NoInterrupt
                     THEN AgentLoop(k, managers, t, req[r].st.messages, <<>>, <<>>)
                   ELSE IF DecisionsMatch(int.actions, req[r].decisions)
                     THEN ResumeOutcomes(k, managers, t, req[r].st.messages, int,
                                         req[r].decisions)
                   ELSE {}
           first == IF int = NoInterrupt THEN 1 ELSE Len(int.produced) + 1
           rejected == {int.actions[j].id : j \in {i \in 1..Len(int.actions) :
                           i <= Len(req[r].decisions) /\ req[r].decisions[i].type = "reject"}}
       IN \E o \in outs : \E p \in first..Len(o.msgs) :
             /\ o.msgs[p].type = "tool"
             /\ o.msgs[p].name \in DomainTools(k)
             /\ o.msgs[p].id \notin rejected
             /\ HandlerRaise(k) = "raised"
             /\ executed' = executed \o SelectSeq(o.execs,
                    LAMBDA e : \E q \in 1..(p - 1) :
                                  o.msgs[q].type = "tool" /\ o.msgs[q].id = e.id)
             /\ Fail(r, ErrTool)
    /\ UNCHANGED <<max_handoffs, managers, db, deleted, nd, accepted>>

\* end of generate_sse_stream: the final event is decided from the thread's
\* latest snapshot
FinalEvent(snapshot) ==
    IF snapshot.next # ""
        THEN (IF snapshot.interrupt # NoInterrupt THEN "interrupt" ELSE "silent")
        ELSE "done"

\* payload of the done event: taken from the thread's latest snapshot
DoneEvent(snapshot) ==
    [messages_count |-> Len(snapshot.messages),
     current_agent |-> snapshot.current_agent,
     handoff_count |-> snapshot.handoff_count]

\* GET /state/{thread_id}: the pending nodes of the thread's latest snapshot
\* and whether one of them carries an interrupt
get_state(snapshot) ==
    [next_nodes |-> IF snapshot.next = "" THEN <<>> ELSE <<snapshot.next>>,
     has_interrupt |-> snapshot.next # "" /\ snapshot.interrupt # NoInterrupt]

\* what a resume on a thread without any checkpoint ends with: chat_resume
\* and generate_sse_stream do not look whether the thread exists, so it is
\* the graph library that either raises (error event) or runs nothing, and
\* then the final snapshot has no pending node
UnknownThreadOutcomes == {ErrNoThread, FinalEvent(EmptyState)}

\* POST /chat/resume: Command(resume={"decisions": request.decisions}) on the
\* thread's latest checkpoint; with no pending interrupt there is nothing to
\* resume
ChatResume(r, t) ==
    /\ FreeSlot(r)
    /\ KnownOrNext(t)
    /\ Accepted < MaxRequests /\ accepted.resume < MaxResumes
    /\ accepted' = [accepted EXCEPT !.resume = @ + 1]
    /\ LET loaded == store[t]
       IN IF loaded.interrupt = NoInterrupt
            THEN \E e \in (IF loaded.cid = 0 THEN UnknownThreadOutcomes
                           ELSE {ErrNoInterrupt}) :
                    req' = [req EXCEPT ![r] = IdleReq(e)]
            ELSE \E ds \in DecisionLists(KeyOf(loaded.next)) :
                   req' = [req EXCEPT ![r] =
                              [pc |-> "node", kind |-> "resume", thread |-> t,
                               st |-> loaded, decisions |-> ds, outcome |-> "none",
                               prevAgent |-> "", target |-> "", routerLLM |-> FALSE,
                               events |-> InitialEvents(loaded),
                               cm |-> InitialManager(loaded)]]
    /\ UNCHANGED <<max_handoffs, managers, db, deleted, nd, store, executed>>

Finish(r) ==
    /\ req[r].pc = "fin"
    /\ req' = [req EXCEPT ![r] = IdleReq(FinalEvent(store[req[r].thread]))]
    /\ UNCHANGED <<max_handoffs, managers, db, deleted, nd, store, executed, accepted>>

\* the client disconnects: the request task is aborted between two steps
ClientDisconnects(r) ==
    /\ req[r].pc \in {"node", "fin"}
    /\ req' = [req EXCEPT ![r] = IdleReq("cancelled")]
    /\ UNCHANGED <<max_handoffs, managers, db, deleted, nd, store, executed, accepted>>

Next ==
    \/ \E r \in Reqs, t \in Threads : ChatStream(r, t)
    \/ \E r \in Reqs, t \in Threads : ChatResume(r, t)
    \/ \E r \in Reqs : RouterContinue(r)
    \/ \E r \in Reqs : RouterLLM(r)
    \/ \E r \in Reqs : LLMFails(r)
    \/ \E r \in Reqs : ManagerRun(r)
    \/ \E r \in Reqs : ManagerResume(r)
    \/ \E r \in Reqs : ToolFails(r)
    \/ \E r \in Reqs : Finish(r)
    \/ \E r \in Reqs : ClientDisconnects(r)

Spec == Init /\ [][Next]_vars

\* ------------------------------------------------------------------------
\* The CRUD functions of the goal database called in any order on one
\* session.  deleted.later records that a create or an update has changed a
\* table after a delete succeeded.
\* ------------------------------------------------------------------------
gateway == <<max_handoffs, managers, store, req, executed, accepted>>

Later(d) == deleted.later \/ (d # db /\ deleted.goals \cup deleted.progress # {})

CreateGoal ==
    /\ Len(db.goals) < MaxGoals
    /\ \E title \in Texts, content \in Texts :
          /\ db' = create_goal(db, title, content)
          /\ deleted' = [deleted EXCEPT !.later = Later(db')]
    /\ UNCHANGED <<gateway, nd>>

UpdateGoal ==
    /\ \E goal_index \in 1..MaxGoals, title \in Texts \cup {None}, content \in Texts \cup {None} :
          /\ db' = update_goal(db, goal_index, title, content)
          /\ deleted' = [deleted EXCEPT !.later = Later(db')]
    /\ UNCHANGED <<gateway, nd>>

DeleteGoal ==
    /\ \E goal_index \in 1..MaxGoals :
          /\ db' = delete_goal(db, goal_index)
          /\ deleted' = IF get_goal(db, goal_index) = NoRow THEN deleted
                        ELSE [deleted EXCEPT !.goals = @ \cup {goal_index}]
    /\ UNCHANGED <<gateway, nd>>

\* goal_id is a foreign key to goals.index: the row of the goal has to be in
\* the table, whatever its delete_yn
CreateProgress ==
    /\ Len(db.progress) < MaxProgresses
    /\ \E goal_id \in 1..Len(db.goals), progress_content \in Texts :
          /\ db' = create_progress(db, goal_id, progress_content)
          /\ deleted' = [deleted EXCEPT !.later = Later(db')]
    /\ UNCHANGED <<gateway, nd>>

UpdateProgress ==
    /\ \E progress_id \in 1..MaxProgresses, progress_content \in Texts \cup {None} :
          /\ db' = update_progress(db, progress_id, progress_content)
          /\ deleted' = [deleted EXCEPT !.later = Later(db')]
    /\ UNCHANGED <<gateway, nd>>

DeleteProgress ==
    /\ \E progress_id \in 1..MaxProgresses :
          /\ db' = delete_progress(db, progress_id)
          /\ deleted' = IF get_progress(db, progress_id) = NoRow THEN deleted
                        ELSE [deleted EXCEPT !.progress = @ \cup {progress_id}]
    /\ UNCHANGED <<gateway, nd>>

CrudNext ==
    \/ CreateGoal
    \/ UpdateGoal
    \/ DeleteGoal
    \/ CreateProgress
    \/ UpdateProgress
    \/ DeleteProgress

CrudSpec == Init /\ [][CrudNext]_vars

\* ------------------------------------------------------------------------
\* The node functions called on their own
\* ------------------------------------------------------------------------
\* the constructor: nodes are the router and the managers that are not None
BuildTeam ==
    /\ nd.phase = "new"
    /\ \E enabled \in TeamFlags, failing \in TeamFailing :
          /\ TeamHGraphInit(enabled, failing).raised = ""
          /\ nd' = [nd EXCEPT !.phase = "built", !.enabled = enabled,
                              !.nodes = {"router"} \cup
                                  {NodeOf(k) : k \in TeamHGraphInit(enabled, failing).managers}]
    /\ UNCHANGED <<gateway, db, deleted>>

\* _router_node on a persisted state: last_active_manager is whatever an
\* earlier run of the service has stored for the thread
RunRouterNode ==
    /\ nd.phase = "built"
    /\ \E last_active \in Managers \cup {""}, target \in Managers :
          LET st == [messages |-> <<HumanMsg(Word)>>, handoff_count |-> 0,
                     last_active_manager |-> last_active]
              cmd == IF last_active # "" THEN RouterSticky(st) ELSE RouterRouted(target)
          IN nd' = [nd EXCEPT !.phase = "ran", !.key = "router", !.state = st,
                              !.cmd = [NoNode.cmd EXCEPT !.goto = cmd.goto,
                                                         !.current_agent = cmd.current_agent]]
    /\ UNCHANGED <<gateway, db, deleted>>

\* _execute_manager_node of a manager that has a node, on any result of its
\* agent; the agent has its own tools and the handoff tools of the flags
RunManagerNode ==
    /\ nd.phase = "built"
    /\ \E k \in Managers, log \in Histories, hc \in 0..max_handoffs, n \in 0..MaxCalls :
          /\ NodeOf(k) \in nd.nodes
          /\ \E names \in [1..n -> (ModelledDomainTools(k) \ SideEffectTools)
                                      \cup HandoffToolsFor(k, nd.enabled)],
                texts \in [1..n -> ToolTexts] :
                LET st == [messages |-> log, handoff_count |-> hc,
                           last_active_manager |-> ""]
                    produced == RunMessages(names, texts, Len(log) + 1)
                IN nd' = [nd EXCEPT !.phase = "ran", !.key = k, !.state = st,
                                    !.names = names, !.produced = produced,
                                    !.cmd = ManagerCommand(st, k, log \o produced,
                                                           max_handoffs)]
    /\ UNCHANGED <<gateway, db, deleted>>

NodeNext ==
    \/ BuildTeam
    \/ RunRouterNode
    \/ RunManagerNode

NodeSpec == Init /\ [][NodeNext]_vars

\* ------------------------------------------------------------------------
\* Properties
\* ------------------------------------------------------------------------

\* C1: whenever a request has completed (the thread's latest checkpoint has no
\* pending node), the persisted handoff_count is at most max_handoffs.
HandoffCountBounded ==
    \A t \in Threads :
        (store[t].cid > 0 /\ store[t].next = "") => store[t].handoff_count <= max_handoffs

\* a request completed on a thread with the counter at the limit after a handoff
HandoffCountAtLimit ==
    \E t \in Threads :
        /\ store[t].next = "" /\ store[t].endedBy # ""
        /\ max_handoffs >= 1
        /\ store[t].handoff_count = max_handoffs

RejectSkipsTool ==
    [][\A r \in Reqs :
          (/\ req[r].pc = "node" /\ req[r].kind = "resume"
           /\ req[r].st.interrupt # NoInterrupt
           /\ req'[r] # req[r] /\ req'[r].pc # "idle")
          => LET int == req[r].st.interrupt
                 out == IF req'[r].st.interrupt # NoInterrupt
                          THEN req'[r].st.interrupt.produced
                          ELSE SubSeq(req'[r].st.messages, Len(req[r].st.messages) + 1,
                                      Len(req'[r].st.messages))
             IN \A j \in 1..Len(int.actions) :
                   req[r].decisions[j].type = "reject" =>
                      /\ \A i \in (Len(executed) + 1)..Len(executed') :
                            executed'[i].id # int.actions[j].id
                      /\ Cardinality({q \in 1..Len(out) :
                            out[q].type = "tool" /\ out[q].id = int.actions[j].id}) = 1
                      /\ \A q \in 1..Len(out) :
                            (out[q].type = "tool" /\ out[q].id = int.actions[j].id)
                               => out[q].content = req[r].decisions[j].message]_vars

\* a rejection's Tool message is in a thread's persisted log
RejectionRecorded ==
    \E t \in Threads : \E q \in 1..Len(store[t].messages) :
        store[t].messages[q].type = "tool" /\ store[t].messages[q].content = RejectText

\* C4: a resume whose decision list has another length than the pending
\* interrupt's action list, or holds a decision that is not approve, edit or
\* reject, ends with an error event (unless the client has left before), runs
\* no handler and writes no checkpoint: the checkpoints, with the pending
\* interrupt, are as before.
BadResumeChangesNothing ==
    [][\A r \in Reqs :
          (/\ req[r].pc = "node" /\ req[r].kind = "resume"
           /\ req[r].st.interrupt # NoInterrupt
           /\ \/ Len(req[r].decisions) # Len(req[r].st.interrupt.actions)
              \/ \E j \in 1..Len(req[r].decisions) :
                    req[r].decisions[j].type \notin {"approve", "edit", "reject"}
           /\ req'[r] # req[r])
          => /\ req'[r].pc = "idle"
             /\ req'[r].outcome \in Errors \cup {"cancelled"}
             /\ store' = store
             /\ executed' = executed]_vars

\* a resume with a bad decision list ended in its error while the thread's
\* interrupt is still pending and nothing was executed
BadResumeRefused ==
    \E r \in Reqs, t \in Threads :
        /\ req[r].pc = "idle" /\ req[r].outcome = ErrDecisions
        /\ store[t].interrupt # NoInterrupt
        /\ executed = <<>>

SerialPerThread ==
    [][\A r \in Reqs :
          (/\ req[r].pc = "node"
           /\ req'[r].pc # "idle"
           /\ req'[r].st.cid # req[r].st.cid)
          => store[req[r].thread].cid = req[r].st.cid]_vars

\* C7: the message log of each checkpoint is a prefix of the log of the
\* thread's next checkpoint.
LogPrefixOrder ==
    [][\A t \in Threads : IsPrefix(store[t].messages, store'[t].messages)]_vars

\* C8: a manager node whose run appended no Tool message with a handoff marker
\* goes to END, whatever markers the log held before the run.
NoNewMarkerNoTransfer ==
    [][\A r \in Reqs :
          (/\ req[r].pc = "node" /\ req[r].st.next \in ManagerNodes
           /\ req'[r].pc # "idle"
           /\ req'[r].st.cid # req[r].st.cid)
          => LET old == req[r].st.messages
                 all == req'[r].st.messages
             IN /\ IsPrefix(old, all)
                /\ (\A q \in (Len(old) + 1)..Len(all) :
                       ~(all[q].type = "tool" /\ MarkerIn(all[q].content) # ""))
                   => req'[r].st.next = ""]_vars

\* a request ended at a node whose run was a single assistant message, on a
\* thread whose log holds a handoff marker from an earlier request
OldMarkerIgnored ==
    \E t \in Threads :
        LET log == store[t].messages
        IN /\ store[t].next = "" /\ store[t].endedBy # ""
           /\ store[t].handoff_count = 0
           /\ Len(log) >= 2
           /\ log[Len(log)].type = "ai"
           /\ log[Len(log) - 1].type = "human"
           /\ \E q \in 1..Len(log) : log[q].type = "tool" /\ MarkerIn(log[q].content) # ""

\* C9: a request that starts on a thread whose latest checkpoint was written by
\* agent A's node going to END is routed to A, and its router node makes no
\* LLM call.
StickyRouting ==
    \A r \in Reqs :
        (/\ req[r].kind = "stream" /\ req[r].pc # "idle"
         /\ req[r].prevAgent # ""
         /\ req[r].st.next # "router")
        => (req[r].target = req[r].prevAgent /\ ~req[r].routerLLM)

\* a follow-up request has passed its router node
FollowUpRouted ==
    \E r \in Reqs :
        /\ req[r].kind = "stream" /\ req[r].pc # "idle"
        /\ req[r].prevAgent # ""
        /\ req[r].st.next # "router"
        /\ req[r].target = req[r].prevAgent

\* C10: a manager node that finishes while handoff_count >= max_handoffs goes
\* to END, whether or not a handoff was detected.
LimitForcesEnd ==
    [][\A r \in Reqs :
          (/\ req[r].pc = "node" /\ req[r].st.next \in ManagerNodes
           /\ req[r].st.handoff_count >= max_handoffs
           /\ req'[r].pc # "idle"
           /\ req'[r].st.cid # req[r].st.cid)
          => (req'[r].st.next = "" /\ req'[r].st.handoff_count = req[r].st.handoff_count)]_vars

\* a node at the limit ended the request although its run produced a handoff
\* marker
HandoffSuppressedAtLimit ==
    \E t \in Threads :
        LET log == store[t].messages
        IN /\ store[t].next = "" /\ store[t].endedBy # ""
           /\ max_handoffs >= 1
           /\ store[t].handoff_count >= max_handoffs
           /\ Len(log) >= 3
           /\ log[Len(log)].type = "ai"
           /\ log[Len(log) - 1].type = "tool"
           /\ MarkerIn(log[Len(log) - 1].content) # ""

\* C11: a resume depends on the suspended checkpoint and the decisions only.
\* (a) A checkpoint with a pending interrupt is changed only by a step of a
\* request on its own thread: delay and other threads' requests leave it as it
\* is.  (b) When a node suspends, the persisted checkpoint is the suspended
\* task's state with the interrupt record.  (c) The checkpoint written by a
\* resume that runs from the thread's latest checkpoint is one that this
\* checkpoint and the decisions give.
ResumeIndependentOfDelay ==
    [][/\ \A t \in Threads :
             (store[t].interrupt # NoInterrupt /\ store'[t] # store[t])
                => \E r \in Reqs : /\ req'[r] # req[r]
                                   /\ (req[r].thread = t \/ req'[r].thread = t)
       /\ \A r \in Reqs :
             (/\ req[r].pc = "node" /\ req'[r].pc = "fin"
              /\ req'[r].st.interrupt # NoInterrupt
              /\ store'[req[r].thread] # store[req[r].thread])
             => store'[req[r].thread] = req'[r].st
       /\ \A r \in Reqs :
             (/\ req[r].pc = "node" /\ req[r].kind = "resume"
              /\ req[r].st.interrupt # NoInterrupt
              /\ req'[r].pc # "idle"
              /\ req'[r].st.cid # req[r].st.cid
              /\ store[req[r].thread] = req[r].st)
             => LET t == req[r].thread
                    st == req[r].st
                    k == KeyOf(st.next)
                IN /\ store'[t].cid = st.cid + 1
                   /\ store'[t].interrupt = NoInterrupt
                   /\ \E o \in ResumeOutcomes(k, managers, t, st.messages, st.interrupt,
                                              req[r].decisions) :
                         /\ ~o.susp
                         /\ LET cmd == ManagerCommand(st, k, st.messages \o o.msgs, max_handoffs)
                            IN /\ store'[t].messages = st.messages \o cmd.messages
                               /\ store'[t].handoff_count = cmd.handoff_count
                               /\ store'[t].current_agent = cmd.current_agent
                               /\ store'[t].last_active_manager = cmd.last_active_manager]_vars

\* a resume has written its checkpoint on one thread after a request has run
\* on another thread
ResumedAfterOtherThread ==
    \E r \in Reqs :
        /\ req[r].kind = "resume" /\ req[r].pc = "fin"
        /\ req[r].st.interrupt = NoInterrupt
        /\ store[req[r].thread] = req[r].st
        /\ \E t \in Threads : t # req[r].thread /\ store[t].cid > 1

\* C12: a request that is cancelled or aborted changes no checkpoint, so the
\* thread's latest checkpoint stays the one of the last completed step; and a
\* request that starts afterwards starts from exactly that checkpoint (a
\* stream request with its message appended, a resume request as it is).
AbortKeepsCheckpoint ==
    [][\A r \in Reqs :
          /\ (/\ req[r].pc \in {"node", "fin"}
              /\ req'[r].pc = "idle"
              /\ req'[r].outcome \in Errors \cup {"cancelled"})
             => store' = store
          /\ (/\ req[r].pc = "idle" /\ req'[r].pc = "node")
             => LET t == req'[r].thread
                IN IF req'[r].kind = "resume"
                     THEN req'[r].st = store[t]
                     ELSE /\ req'[r].st.messages = store[t].messages \o <<HumanMsg(Word)>>
                          /\ req'[r].st.current_agent = store[t].current_agent
                          /\ req'[r].st.last_active_manager = store[t].last_active_manager
                          /\ req'[r].st.routing_reason = store[t].routing_reason]_vars

\* after an aborted request, with no other request in flight, a new request
\* has started from the checkpoint the router node had written
RestartedAfterAbort ==
    \E r \in Reqs :
        /\ req[r].kind = "stream" /\ req[r].pc = "node"
        /\ req[r].st.next = "router"
        /\ req[r].st.current_agent # "" /\ req[r].st.last_active_manager = ""
        /\ Len(req[r].st.messages) = 2
        /\ \A q \in Reqs \ {r} : req[q].pc = "idle"
        /\ \E q \in Reqs \ {r} : req[q].outcome \in {ErrLLM, "cancelled"}

\* C13: every stream that is produced to its end (the client has not
\* disconnected) has a done, interrupt or error event as its last event.
StreamEndsWithFinalEvent ==
    [][\A r \in Reqs :
          (/\ req'[r] # req[r]
           /\ req'[r].pc = "idle"
           /\ req'[r].outcome # "cancelled")
          => req'[r].outcome \in {"done", "interrupt"} \cup Errors]_vars

\* C14 (as stated): every request whose router node has yielded a target has
\* exactly one router_decision event in its stream.
RouterDecisionOncePerYield ==
    \A r \in Reqs :
        (req[r].kind = "stream" /\ req[r].pc # "idle" /\ req[r].st.next # "router")
        => Cardinality({q \in 1..Len(req[r].events) :
                           req[r].events[q].event = "router_decision"}) = 1

\* C14 (amended): a router node that decides by its LLM call gives exactly one
\* router_decision event, carrying the chosen target; a router node that
\* continues with last_active_manager gives none; before the router node has
\* run there is none.
RouterDecisionOncePerLLMDecision ==
    \A r \in Reqs :
        req[r].pc # "idle" =>
            LET ds == {q \in 1..Len(req[r].events) : req[r].events[q].event = "router_decision"}
            IN /\ Cardinality(ds) = (IF req[r].routerLLM THEN 1 ELSE 0)
               /\ \A q \in ds : req[r].events[q].info = req[r].target

\* a request whose router node decided by its LLM call is past the router
RouterDecided ==
    \E r \in Reqs :
        /\ req[r].kind = "stream" /\ req[r].pc # "idle"
        /\ req[r].routerLLM /\ req[r].st.next # "router"
        /\ \E q \in 1..Len(req[r].events) :
              req[r].events[q].event = "router_decision" /\ req[r].events[q].info = req[r].target

\* C15: a request that starts on a thread whose latest checkpoint was written
\* by an agent's node going to END has no router_decision event in its stream.
StickyNoRouterDecision ==
    \A r \in Reqs :
        (req[r].kind = "stream" /\ req[r].pc # "idle" /\ req[r].prevAgent # "")
        => \A q \in 1..Len(req[r].events) : req[r].events[q].event # "router_decision"

\* the router node of a follow-up request has run and its events were streamed
StickyRouterStreamed ==
    \E r \in Reqs :
        /\ req[r].kind = "stream" /\ req[r].pc # "idle"
        /\ req[r].prevAgent # "" /\ req[r].st.next # "router"
        /\ \E q \in 1..Len(req[r].events) :
              req[r].events[q].event = "node_end" /\ req[r].events[q].src = "router"

\* C16: in every stream, a router_decision event comes before every
\* agent_start event that names the agent the router chose.
RouterDecisionBeforeAgentStart ==
    \A r \in Reqs :
        req[r].pc # "idle" =>
            \A p, q \in 1..Len(req[r].events) :
                (/\ req[r].events[p].event = "router_decision"
                 /\ req[r].events[q].event = "agent_start"
                 /\ req[r].events[q].info = req[r].events[p].info)
                => p < q

\* C17: no token event and no llm_end event of any stream is made from an
\* event of the router node; every token and llm_end comes from an LLM call
\* inside an agent.
NoRouterTokens ==
    \A r \in Reqs :
        req[r].pc # "idle" =>
            \A q \in 1..Len(req[r].events) :
                req[r].events[q].event \in {"token", "llm_end"}
                => (req[r].events[q].src # "router" /\ req[r].events[q].src = ModelNode)

\* a stream passed the router's LLM call and an agent's LLM call: it has the
\* router's llm_start and an agent's token and llm_end
RouterAndAgentStreamed ==
    \E r \in Reqs :
        /\ req[r].pc # "idle" /\ req[r].routerLLM
        /\ \E q \in 1..Len(req[r].events) :
              req[r].events[q].event = "llm_start" /\ req[r].events[q].src = "router"
        /\ \E q \in 1..Len(req[r].events) :
              req[r].events[q].event = "token" /\ req[r].events[q].src = ModelNode
        /\ \E q \in 1..Len(req[r].events) :
              req[r].events[q].event = "llm_end" /\ req[r].events[q].src = ModelNode

\* C18: every run of an agent's node in a request puts an agent_change event
\* carrying that agent into the request's stream, before any other event of
\* that run; in particular a handoff from agent A to agent B # A gives an
\* agent_change carrying B.
AgentChangeOnEntry ==
    [][\A r \in Reqs : \A k \in Managers :
          (/\ req[r].pc = "node" /\ req[r].st.next = NodeOf(k)
           /\ req'[r] # req[r] /\ req'[r].pc # "idle")
          => /\ Len(req'[r].events) > Len(req[r].events)
             /\ req'[r].events[Len(req[r].events) + 1].event = "agent_change"
             /\ req'[r].events[Len(req[r].events) + 1].info = k
             /\ req'[r].cm = k]_vars

\* a stream in which agent A handed off to agent B # A: it has an
\* agent_change for A and a later one for B
HandoffStreamed ==
    \E r \in Reqs :
        /\ req[r].pc # "idle" /\ req[r].st.handoff_count >= 1
        /\ \E p, q \in 1..Len(req[r].events) :
              /\ p < q
              /\ req[r].events[p].event = "agent_change"
              /\ req[r].events[q].event = "agent_change"
              /\ req[r].events[p].info # req[r].events[q].info

\* C19: when an agent's node is forced to END at the loop limit although its
\* run produced a handoff, the events the node puts into the stream include a
\* diagnostic event, that is, one that is not among the ordinary events of a
\* node run, and the request does not end with an error.
LimitDiagnosticEvent ==
    [][\A r \in Reqs :
          (/\ req[r].pc = "node" /\ req[r].st.next \in ManagerNodes
           /\ req[r].st.handoff_count >= max_handoffs
           /\ req'[r].pc # "idle"
           /\ req'[r].st.cid # req[r].st.cid
           /\ \E q \in (Len(req[r].st.messages) + 1)..Len(req'[r].st.messages) :
                 /\ req'[r].st.messages[q].type = "tool"
                 /\ MarkerIn(req'[r].st.messages[q].content) # "")
          => /\ req'[r].pc = "fin"
             /\ \E q \in (Len(req[r].events) + 1)..Len(req'[r].events) :
                   req'[r].events[q].event \notin
                       {"agent_change", "node_start", "node_end", "llm_start", "token",
                        "llm_end", "tool_start", "tool_end"}]_vars

\* C20: when the node of agent k finishes, the state it leaves has
\* current_agent = k; its last_active_manager is the target of the handoff if
\* the run handed off (a handoff marker among the run's new tool messages,
\* below the loop limit), and k otherwise.
AgentNodeUpdatesIdentity ==
    [][\A r \in Reqs : \A k \in Managers :
          (/\ req[r].pc = "node" /\ req[r].st.next = NodeOf(k)
           /\ req'[r].pc # "idle"
           /\ req'[r].st.cid # req[r].st.cid)
          => LET old == req[r].st
                 new == req'[r].st
                 marks == {q \in (Len(old.messages) + 1)..Len(new.messages) :
                              /\ new.messages[q].type = "tool"
                              /\ MarkerIn(new.messages[q].content) # ""}
             IN /\ new.current_agent = k
                /\ (marks # {} /\ old.handoff_count < max_handoffs)
                   => \E q \in marks :
                         /\ \A p \in marks : p <= q
                         /\ new.last_active_manager = MarkerIn(new.messages[q].content)
                /\ (marks = {} \/ old.handoff_count >= max_handoffs)
                   => new.last_active_manager = k]_vars

\* a node has finished with a handoff: the checkpoint it wrote names the agent
\* that ran and, as last_active_manager, another agent
HandoffRecorded ==
    \E t \in Threads :
        /\ store[t].current_agent \in Managers
        /\ store[t].last_active_manager \in Managers
        /\ store[t].last_active_manager # store[t].current_agent
        /\ store[t].next = NodeOf(store[t].last_active_manager)
        /\ store[t].handoff_count >= 1

\* C21: when a resume with a matching decision list approves a call, the step
\* that applies it runs the call's handler exactly once, with the name and the
\* arguments of the pending call, and the messages of the run hold exactly one
\* Tool message for the call.
ApproveRunsOriginalCall ==
    [][\A r \in Reqs :
          (/\ req[r].pc = "node" /\ req[r].kind = "resume"
           /\ req[r].st.interrupt # NoInterrupt
           /\ req'[r] # req[r] /\ req'[r].pc # "idle")
          => LET int == req[r].st.interrupt
                 out == IF req'[r].st.interrupt # NoInterrupt
                          THEN req'[r].st.interrupt.produced
                          ELSE SubSeq(req'[r].st.messages, Len(req[r].st.messages) + 1,
                                      Len(req'[r].st.messages))
             IN \A j \in 1..Len(int.actions) :
                   req[r].decisions[j].type = "approve" =>
                      /\ Cardinality({i \in (Len(executed) + 1)..Len(executed') :
                            executed'[i].id = int.actions[j].id}) = 1
                      /\ \A i \in (Len(executed) + 1)..Len(executed') :
                            executed'[i].id = int.actions[j].id
                               => /\ executed'[i].name = int.actions[j].name
                                  /\ executed'[i].args = int.actions[j].args
                                  /\ executed'[i].thread = req[r].thread
                      /\ Cardinality({q \in 1..Len(out) :
                            /\ out[q].type = "tool" /\ out[q].id = int.actions[j].id
                            /\ out[q].name = int.actions[j].name}) = 1]_vars

\* an approved call has run with its original arguments and its Tool message
\* is in the thread's persisted log
ApprovedCallRecorded ==
    \E i \in 1..Len(executed) :
        /\ executed[i].via = "approve" /\ executed[i].args = Arg1
        /\ \E q \in 1..Len(store[executed[i].thread].messages) :
              /\ store[executed[i].thread].messages[q].type = "tool"
              /\ store[executed[i].thread].messages[q].id = executed[i].id

\* C22: when a resume with a matching decision list edits a call, the step
\* that applies it runs the handler of the tool named in the edit, once, with
\* the edited arguments, and the messages of the run hold a Tool message of
\* that tool for the call.
EditRunsEditedCall ==
    [][\A r \in Reqs :
          (/\ req[r].pc = "node" /\ req[r].kind = "resume"
           /\ req[r].st.interrupt # NoInterrupt
           /\ req'[r] # req[r] /\ req'[r].pc # "idle")
          => LET int == req[r].st.interrupt
                 out == IF req'[r].st.interrupt # NoInterrupt
                          THEN req'[r].st.interrupt.produced
                          ELSE SubSeq(req'[r].st.messages, Len(req[r].st.messages) + 1,
                                      Len(req'[r].st.messages))
             IN \A j \in 1..Len(int.actions) :
                   req[r].decisions[j].type = "edit" =>
                      /\ Cardinality({i \in (Len(executed) + 1)..Len(executed') :
                            executed'[i].id = int.actions[j].id}) = 1
                      /\ \A i \in (Len(executed) + 1)..Len(executed') :
                            executed'[i].id = int.actions[j].id
                               => /\ executed'[i].name = req[r].decisions[j].name
                                  /\ executed'[i].args = req[r].decisions[j].args
                      /\ Cardinality({q \in 1..Len(out) :
                            /\ out[q].type = "tool" /\ out[q].id = int.actions[j].id
                            /\ out[q].name = req[r].decisions[j].name}) = 1]_vars

\* an edited call has run under another name and with other arguments than
\* the original call, and its Tool message is in the thread's persisted log
EditedCallRecorded ==
    \E i \in 1..Len(executed) :
        /\ executed[i].via = "edit" /\ executed[i].args = Arg2
        /\ executed[i].name = "update_memory"
        /\ \E q \in 1..Len(store[executed[i].thread].messages) :
              /\ store[executed[i].thread].messages[q].type = "tool"
              /\ store[executed[i].thread].messages[q].id = executed[i].id
              /\ store[executed[i].thread].messages[q].name = "update_memory"

LLMFailureKeepsCheckpoint ==
    [][\A r \in Reqs :
          /\ (/\ req[r].pc = "node" /\ req'[r].pc = "idle"
              /\ req'[r].outcome = "error: llm provider")
             => store' = store
          /\ (req[r].pc = "idle" /\ req'[r].pc = "node")
             => LET t == req'[r].thread
                IN /\ store[t].cid > 0 /\ req'[r].kind = "stream"
                      => /\ IsPrefix(store[t].messages, req'[r].st.messages)
                         /\ req'[r].st.current_agent = store[t].current_agent
                         /\ req'[r].st.last_active_manager = store[t].last_active_manager
                   /\ req'[r].kind = "resume" => req'[r].st = store[t]]_vars

\* a request has ended with the error of an LLM provider call after the router
\* had written its checkpoint: the thread's checkpoint still names the agent's
\* node as pending, and no request is running on the thread
LLMFailedAfterCheckpoint ==
    \E r \in Reqs, t \in Threads :
        /\ req[r].pc = "idle" /\ req[r].outcome = "error: llm provider"
        /\ store[t].cid >= 2 /\ store[t].next \in ManagerNodes
        /\ store[t].interrupt = NoInterrupt
        /\ \A q \in Reqs : req[q].pc = "idle"

NoRequestOnEmptyTeam ==
    \A r \in Reqs : req[r].pc # "idle" => managers # {}

\* C27: when the router's LLM call has decided, its target_agent is one of the
\* agents of the running graph.
RouterTargetEnabled ==
    \A r \in Reqs :
        (req[r].pc # "idle" /\ req[r].routerLLM) => req[r].target \in managers

DeletedNeverReturned ==
    /\ \A i \in deleted.goals :
          /\ get_goal(db, i) = NoRow
          /\ \A skip \in 0..MaxGoals, limit \in 0..MaxGoals :
                \A k \in DOMAIN get_goals(db, skip, limit) :
                    get_goals(db, skip, limit)[k].index # i
    /\ \A i \in deleted.progress :
          /\ get_progress(db, i) = NoRow
          /\ \A g \in 1..MaxGoals, skip \in 0..MaxProgresses, limit \in 0..MaxProgresses :
                \A k \in DOMAIN get_progresses_by_goal(db, g, skip, limit) :
                    get_progresses_by_goal(db, g, skip, limit)[k].progress_id # i

\* a goal and a progress record have been deleted, creates or updates have
\* changed the tables after a delete, and the gets still return other records
DeletedThenChanged ==
    /\ deleted.goals # {} /\ deleted.progress # {} /\ deleted.later
    /\ get_goals(db, 0, MaxGoals) # <<>>
    /\ \E g \in 1..MaxGoals : get_progresses_by_goal(db, g, 0, MaxProgresses) # <<>>

\* C30: a suspended execution goes on only in a resume request.  A
\* POST /chat/stream on a thread whose latest checkpoint holds a pending
\* interrupt runs no handler, drops the interrupt and starts at the router;
\* no step of a stream request runs the handler of an approval-required tool;
\* and a task that is inside a suspended node is a resume request.
StreamDoesNotResume ==
    [][\A r \in Reqs :
          /\ (/\ req[r].pc = "idle"
              /\ req'[r].pc = "node" /\ req'[r].kind = "stream"
              /\ store[req'[r].thread].interrupt # NoInterrupt)
             => (/\ executed' = executed
                 /\ req'[r].st.interrupt = NoInterrupt
                 /\ req'[r].st.next = "router")
          /\ (req[r].pc # "idle" /\ req[r].kind = "stream" /\ req'[r] # req[r])
             => \A i \in (Len(executed) + 1)..Len(executed') :
                   executed'[i].name \notin InterruptOnM \cup InterruptOnT \cup InterruptOnI
          /\ (req'[r].pc = "node" /\ req'[r].st.interrupt # NoInterrupt)
             => req'[r].kind = "resume"]_vars

\* a resume request q has loaded a pending interrupt and has not yet run its
\* node; a stream request r on the same thread has since written three
\* checkpoints (the input, the router's and an agent's that called no tool),
\* the first of them over the checkpoint that held the interrupt; no handler
\* has run
StreamRanOverInterrupt ==
    \E r, q \in Reqs :
        /\ req[q].pc = "node" /\ req[q].kind = "resume"
        /\ req[q].st.interrupt # NoInterrupt
        /\ req[r].pc = "fin" /\ req[r].kind = "stream"
        /\ req[r].thread = req[q].thread
        /\ req[r].st.cid = req[q].st.cid + 3
        /\ Len(req[r].st.messages) = Len(req[q].st.messages) + 2
        /\ req[r].st.messages[Len(req[q].st.messages) + 1].type = "human"
        /\ store[req[r].thread] = req[r].st
        /\ executed = <<>>

\* C31: when a stream request ends with done, the handoff_count that done
\* reports is the number of transfers from one agent node to another that the
\* request performed, that is the number of agent nodes it ran less the first.
DoneReportsTransfers ==
    [][\A r \in Reqs :
          (/\ req[r].pc = "fin" /\ req[r].kind = "stream"
           /\ req'[r].pc = "idle" /\ req'[r].outcome = "done")
          => LET runs == Cardinality({i \in 1..Len(req[r].events) :
                                         req[r].events[i].event = "agent_change"})
             IN DoneEvent(store[req[r].thread]).handoff_count
                   = IF runs = 0 THEN 0 ELSE runs - 1]_vars

\* C32: the step that starts a stream request on a thread that has a
\* checkpoint appends exactly one message, a User message, to the thread's
\* log, sets handoff_count to 0 and leaves current_agent, last_active_manager
\* and the earlier messages as they were.
NewRequestFrame ==
    [][\A r \in Reqs :
          (/\ req[r].pc = "idle"
           /\ req'[r].pc = "node" /\ req'[r].kind = "stream"
           /\ store[req'[r].thread].cid > 0)
          => LET t == req'[r].thread
                 n == Len(store[t].messages)
             IN /\ Len(store'[t].messages) = n + 1
                /\ SubSeq(store'[t].messages, 1, n) = store[t].messages
                /\ store'[t].messages[n + 1].type = "human"
                /\ store'[t].handoff_count = 0
                /\ store'[t].current_agent = store[t].current_agent
                /\ store'[t].last_active_manager = store[t].last_active_manager
                /\ req'[r].st = store'[t]]_vars

\* a stream request has just started on a thread whose earlier request had
\* performed a transfer: the counter is 0 again, the agent fields and the
\* earlier messages are there
NewRequestAfterTransfer ==
    \E r \in Reqs :
        /\ req[r].pc = "node" /\ req[r].kind = "stream" /\ req[r].st.next = "router"
        /\ store[req[r].thread] = req[r].st
        /\ req[r].st.handoff_count = 0
        /\ req[r].st.last_active_manager # "" /\ req[r].st.current_agent # ""
        /\ \E j \in 1..(Len(req[r].st.messages) - 1) :
              /\ req[r].st.messages[j].type = "tool"
              /\ req[r].st.messages[j].name \in HandoffToolNames
        /\ req[r].st.messages[Len(req[r].st.messages)].type = "human"
        /\ \A q \in Reqs : q # r => req[q].pc = "idle"

\* C33 as stated: of the messages an agent run appended, the newest Tool
\* message that holds a handoff marker names the next node, and the next node
\* is END when no appended Tool message holds a marker.
NewestMarkerDecides ==
    (nd.phase = "ran" /\ nd.key \in Managers) =>
        LET new == nd.produced
            marked(j, k) == /\ new[j].type = "tool"
                            /\ \E i \in 1..(Len(new[j].content) - 2) :
                                  /\ new[j].content[i] = "["
                                  /\ new[j].content[i + 1] = MarkerAtom(k)
                                  /\ new[j].content[i + 2] = "]"
            hits == {j \in 1..Len(new) : \E k \in Managers : marked(j, k)}
        IN IF hits = {} THEN nd.cmd.goto = "END"
           ELSE \E k \in Managers :
                   /\ marked(CHOOSE j \in hits : \A h \in hits : h <= j, k)
                   /\ nd.cmd.goto = NodeOf(k)

\* C33 amended: the same, except that a node that finishes with
\* handoff_count >= max_handoffs goes to END whatever its new messages hold.
NewestMarkerDecidesBelowLimit ==
    (nd.phase = "ran" /\ nd.key \in Managers) =>
        LET new == nd.produced
            marked(j, k) == /\ new[j].type = "tool"
                            /\ \E i \in 1..(Len(new[j].content) - 2) :
                                  /\ new[j].content[i] = "["
                                  /\ new[j].content[i + 1] = MarkerAtom(k)
                                  /\ new[j].content[i + 2] = "]"
            hits == {j \in 1..Len(new) : \E k \in Managers : marked(j, k)}
        IN IF hits = {} \/ nd.state.handoff_count >= max_handoffs
             THEN nd.cmd.goto = "END"
             ELSE \E k \in Managers :
                     /\ marked(CHOOSE j \in hits : \A h \in hits : h <= j, k)
                     /\ nd.cmd.goto = NodeOf(k)

\* an agent run below the limit appended two Tool messages with markers of
\* different agents, and the next node is the one the newer message names
NewestOfTwoMarkersWon ==
    /\ nd.phase = "ran" /\ nd.key \in Managers
    /\ nd.state.handoff_count < max_handoffs
    /\ Len(nd.produced) = 4
    /\ \E k1, k2 \in Managers :
          /\ k1 # k2
          /\ MarkerIn(nd.produced[2].content) = k1
          /\ MarkerIn(nd.produced[3].content) = k2
          /\ ~Contains(nd.produced[3].content, Marker(k1))
          /\ nd.cmd.goto = NodeOf(k2)

\* C34 as stated: the newest appended Tool message whose content holds a token
\* HANDOFF_TO_X, wherever and with or without anything around it, is taken as
\* a handoff to X (when it holds the token of one agent only).
BareTokenIsMarker ==
    (nd.phase = "ran" /\ nd.key \in Managers) =>
        LET new == nd.produced
            token(j, k) == /\ new[j].type = "tool"
                           /\ \E i \in 1..Len(new[j].content) :
                                 new[j].content[i] = MarkerAtom(k)
            hits == {j \in 1..Len(new) : \E k \in Managers : token(j, k)}
        IN \A k \in Managers :
              (/\ hits # {}
               /\ \A o \in Managers :
                     token(CHOOSE j \in hits : \A h \in hits : h <= j, o) <=> o = k)
              => nd.cmd.detected = k

\* C34 amended: the token counts only between square brackets.  The newest
\* appended Tool message whose content holds "[HANDOFF_TO_X]" somewhere is
\* taken as a handoff to X (when it holds the marker of one agent only), and
\* a run none of whose appended Tool messages holds a bracketed marker is
\* taken as no handoff.
BracketedTokenIsMarker ==
    (nd.phase = "ran" /\ nd.key \in Managers) =>
        LET new == nd.produced
            marker(j, k) == /\ new[j].type = "tool"
                            /\ \E i \in 1..(Len(new[j].content) - 2) :
                                  /\ new[j].content[i] = "["
                                  /\ new[j].content[i + 1] = MarkerAtom(k)
                                  /\ new[j].content[i + 2] = "]"
            hits == {j \in 1..Len(new) : \E k \in Managers : marker(j, k)}
        IN /\ hits = {} => nd.cmd.detected = ""
           /\ \A k \in Managers :
                 (/\ hits # {}
                  /\ \A o \in Managers :
                        marker(CHOOSE j \in hits : \A h \in hits : h <= j, o) <=> o = k)
                 => nd.cmd.detected = k

\* the newest appended Tool message holds the token of S without brackets and
\* the one before it holds the marker of M in the middle of its text: the run
\* is taken as a handoff to M
BareTokenSkipped ==
    /\ nd.phase = "ran" /\ nd.key \in Managers
    /\ Len(nd.produced) = 4
    /\ nd.produced[3].type = "tool"
    /\ \E i \in 1..Len(nd.produced[3].content) : nd.produced[3].content[i] = MarkerAtom("s")
    /\ \A i \in 1..Len(nd.produced[3].content) : nd.produced[3].content[i] # "["
    /\ nd.produced[2].type = "tool"
    /\ Len(nd.produced[2].content) >= 4
    /\ nd.produced[2].content[1] = "w"
    /\ nd.produced[2].content[3] = MarkerAtom("m")
    /\ nd.cmd.detected = "m"

\* C35: the update of an agent node holds exactly the messages its run
\* produced, so the merged log is the log before the run followed by those
\* messages, each once: nothing earlier is repeated, nothing produced is lost
UpdateIsNewMessagesOnly ==
    (nd.phase = "ran" /\ nd.key \in Managers)
    => LET before == nd.state.messages
           merged == add_messages(before, nd.cmd.messages)
       IN /\ nd.cmd.messages = nd.produced
          /\ Len(merged) = Len(before) + Len(nd.produced)
          /\ \A i \in 1..Len(before) : merged[i] = before[i]
          /\ \A j \in 1..Len(nd.produced) : merged[Len(before) + j] = nd.produced[j]

\* an agent run on a log that already holds an earlier run's messages, which
\* produced two messages of its own
RunAppendedToLongLog ==
    /\ nd.phase = "ran" /\ nd.key \in Managers
    /\ Len(nd.state.messages) > 1
    /\ Len(nd.produced) >= 2
    /\ Len(nd.cmd.messages) = Len(nd.produced)

\* C36: when a stream ends with an interrupt event the thread's checkpoint
\* holds the pending interrupt record (GET /state: has_interrupt, next_nodes
\* not empty), and it stays there until a resume is applied.  Stated for the
\* first request of the service: once it has ended with the interrupt event
\* and while nothing else has been accepted, no resume is being applied, so
\* no step may take the record away.
InterruptKeptUntilResume ==
    [][/\ \A r \in Reqs :
             (req[r].pc = "fin" /\ req'[r].pc = "idle" /\ req'[r].outcome = "interrupt")
             => /\ get_state(store'[req[r].thread]).has_interrupt
                /\ get_state(store'[req[r].thread]).next_nodes # <<>>
       /\ \A t \in Threads :
             (/\ Accepted = 1
              /\ \E q \in Reqs : req[q].pc = "idle" /\ req[q].outcome = "interrupt"
              /\ get_state(store[t]).has_interrupt)
             => get_state(store'[t]).has_interrupt]_vars

\* C37: a goto that comes from sticky routing (a persisted
\* last_active_manager) or from a detected handoff names a node of the
\* compiled graph, whichever managers were enabled or failed to initialize
GotoNamesExistingNode ==
    (/\ nd.phase = "ran"
     /\ \/ nd.key = "router" /\ nd.state.last_active_manager # ""
        \/ nd.key \in Managers /\ nd.cmd.goto # "END")
    => nd.cmd.goto \in nd.nodes

\* C38: within one request at most max_handoffs + 1 agent nodes are entered
\* (each entry is announced by one agent_change event), whatever handoffs the
\* agents ask for
AgentRunsBounded ==
    \A r \in Reqs :
        req[r].pc # "idle"
        => Cardinality({i \in 1..Len(req[r].events) :
                           req[r].events[i].event = "agent_change"}) <= max_handoffs + 1

\* a stream request that entered max_handoffs + 1 agent nodes and ended
\* although the last of them asked for one more handoff
AgentRunsReachedBound ==
    \E r \in Reqs :
        LET log == req[r].st.messages
        IN /\ req[r].pc = "fin" /\ req[r].kind = "stream"
           /\ max_handoffs >= 1
           /\ Cardinality({i \in 1..Len(req[r].events) :
                              req[r].events[i].event = "agent_change"}) = max_handoffs + 1
           /\ req[r].st.next = ""
           /\ Len(log) >= 3
           /\ log[Len(log) - 1].type = "tool"
           /\ MarkerIn(log[Len(log) - 1].content) # ""

\* C39: an agent node transfers to agent X only if its run called the tool
\* handoff_to_manager_X; the Tool message of any other tool causes no transfer
TransferOnlyByHandoffTool ==
    (nd.phase = "ran" /\ nd.key \in Managers /\ nd.cmd.goto # "END")
    => \E j \in 1..Len(nd.names) : nd.names[j] = HandoffToolName(KeyOf(nd.cmd.goto))

\* C40: a request on one thread id neither changes nor reads the state, the
\* pending interrupt or the checkpoints of another thread id, however the
\* requests on distinct threads interleave: (a) a thread's checkpoint changes
\* only in a step of a request on that thread; (b) the state a request starts
\* from and its first events come from its own thread's checkpoint; (c) the
\* final event is decided from its own thread's checkpoint
ThreadsIsolated ==
    [][/\ \A t \in Threads :
             store'[t] # store[t]
             => \E r \in Reqs : /\ req'[r] # req[r]
                                /\ (req[r].thread = t \/ req'[r].thread = t)
       /\ \A r \in Reqs :
             (req[r].pc = "idle" /\ req'[r].pc # "idle")
             => LET t == req'[r].thread
                IN /\ req'[r].events = InitialEvents(store[t])
                   /\ req'[r].kind = "resume" => req'[r].st = store[t]
                   /\ req'[r].kind = "stream"
                        => /\ req'[r].st = store'[t]
                           /\ req'[r].st.messages = store[t].messages \o <<HumanMsg(Word)>>
                           /\ req'[r].st.cid = store[t].cid + 1
                           /\ req'[r].st.last_active_manager = store[t].last_active_manager
       /\ \A r \in Reqs :
             (req[r].pc = "fin" /\ req'[r].pc = "idle" /\ req'[r].outcome # "cancelled")
             => req'[r].outcome = FinalEvent(store[req[r].thread])]_vars

\* requests on two threads in flight at once, each with a node already
\* committed, the two threads' checkpoints being different
TwoThreadsInFlight ==
    \E r, q \in Reqs :
        /\ req[r].pc = "node" /\ req[q].pc \in {"node", "fin"}
        /\ req[r].thread = "t1" /\ req[q].thread = "t2"
        /\ req[r].st.cid >= 2 /\ req[q].st.cid >= 2
        /\ store["t1"].current_agent # store["t2"].current_agent

====
